---- MODULE Spec2Model ----
(***************************************************************************)
(* Model of @decentralchain/data-entities: the decimal boundary            *)
(* (toBigNumber), the Money value type built on it, the config registry    *)
(* and the Asset and Candle constructors that read it, AssetPair and       *)
(* OrderPrice.                                                             *)
(*                                                                         *)
(* A BigNumber is modelled as a record [k, n]: k is "num", "nan", "inf" or *)
(* "ninf", and for k = "num" the value is n / Scale, a fixed-point decimal *)
(* with DecimalPlaces fractional digits.  Strings are modelled as decimal  *)
(* numerals [lit, neg, ip, frac] (sign, integer part, sequence of          *)
(* fractional digits) or as one of the non-numeric literals.  The amounts  *)
(* of an OrderPrice, which the matcher scale of 10^8 takes out of that     *)
(* range, are records [k, m, e] of value m * 10^e, and their texts are     *)
(* sequences of digits.                                                    *)
(***************************************************************************)
EXTENDS Integers, Sequences, FiniteSets, TLC

\* Fractional digits the model's decimals carry.
DecimalPlaces == 4

\* Largest number of Money instances alive at once.
MaxMonies == 2

\* Largest coin magnitude an operation may produce.
MaxCoins == 250

\* Longest argument list given to Money.max and Money.min.
MaxArgs == 3

\* Most entities (Asset and Candle) the caller holds at once.
MaxHeld == 1

\* Most AssetPairs the caller holds at once.
MaxPairs == 2

RECURSIVE Pow10(_)
Pow10(e) == IF e = 0 THEN 1 ELSE 10 * Pow10(e - 1)

Scale == Pow10(DecimalPlaces)

Abs(x) == IF x < 0 THEN 0 - x ELSE x

Sign(x) == IF x < 0 THEN 0 - 1 ELSE IF x = 0 THEN 0 ELSE 1

\* ------------------------------------------------------------------------
\* BigNumber values
\* ------------------------------------------------------------------------

Num(n) == [k |-> "num", n |-> n]

BnNaN == [k |-> "nan", n |-> 0]

BnInf == [k |-> "inf", n |-> 0]

BnNegInf == [k |-> "ninf", n |-> 0]

\* An integer as a BigNumber.
BnInt(i) == Num(i * Scale)

BnIsNaN(a) == a.k = "nan"

BnIsFinite(a) == a.k = "num"

BnIsZero(a) == a.k = "num" /\ a.n = 0

BnIsInteger(a) == a.k = "num" /\ a.n % Scale = 0

\* Sign of a non-NaN BigNumber: -1, 0 or 1.
BnSign(a) ==
  CASE a.k = "inf" -> 1
    [] a.k = "ninf" -> 0 - 1
    [] OTHER -> Sign(a.n)

BnSigned(s) == IF s < 0 THEN BnNegInf ELSE BnInf

\* ------------------------------------------------------------------------
\* Strings: decimal numerals and the non-numeric literals
\* ------------------------------------------------------------------------

DecStr(neg, ip, frac) == [lit |-> "dec", neg |-> neg, ip |-> ip, frac |-> frac]

Lit(x) == [lit |-> x, neg |-> FALSE, ip |-> 0, frac |-> <<>>]

RECURSIVE FracVal(_, _)
\* Value, in units of 1/Scale, of the fractional digits frac[i..].
FracVal(frac, i) ==
  IF i > Len(frac) THEN 0
  ELSE frac[i] * Pow10(DecimalPlaces - i) + FracVal(frac, i + 1)

\* new BigNumber(x) for a string, or for a number through its decimal text.
BnNew(s) ==
  CASE s.lit = "dec" ->
         Num((IF s.neg THEN 0 - 1 ELSE 1) * (s.ip * Scale + FracVal(s.frac, 1)))
    [] s.lit = "Infinity" -> BnInf
    [] s.lit = "-Infinity" -> BnNegInf
    [] OTHER -> BnNaN

\* ------------------------------------------------------------------------
\* BigNumber arithmetic
\* ------------------------------------------------------------------------

BnAdd(a, b) ==
  CASE a.k = "nan" \/ b.k = "nan" -> BnNaN
    [] a.k = "num" /\ b.k = "num" -> Num(a.n + b.n)
    [] a.k = "num" -> b
    [] b.k = "num" -> a
    [] OTHER -> IF a.k = b.k THEN a ELSE BnNaN

BnNeg(a) ==
  CASE a.k = "num" -> Num(0 - a.n)
    [] a.k = "inf" -> BnNegInf
    [] a.k = "ninf" -> BnInf
    [] OTHER -> BnNaN

BnSub(a, b) == BnAdd(a, BnNeg(b))

\* Exact product; every product the entities form has an integral factor.
BnMul(a, b) ==
  CASE a.k = "nan" \/ b.k = "nan" -> BnNaN
    [] a.k = "num" /\ b.k = "num" ->
         IF a.n % Scale = 0 THEN Num((a.n \div Scale) * b.n)
         ELSE IF b.n % Scale = 0 THEN Num(a.n * (b.n \div Scale))
         ELSE Num((a.n * b.n) \div Scale)
    [] OTHER ->
         IF BnSign(a) * BnSign(b) = 0 THEN BnNaN
         ELSE BnSigned(BnSign(a) * BnSign(b))

RECURSIVE LongDiv(_, _, _)
\* Quotient and remainder of A * 10^k / B for A >= 0, B > 0, digit by digit.
LongDiv(A, B, k) ==
  IF k = 0 THEN [q |-> A \div B, r |-> A % B]
  ELSE LET p == LongDiv(A, B, k - 1)
       IN [q |-> p.q * 10 + (p.r * 10) \div B, r |-> (p.r * 10) % B]

\* Quotient rounded half-up to DecimalPlaces digits.
BnDiv(a, b) ==
  CASE a.k = "nan" \/ b.k = "nan" -> BnNaN
    [] a.k = "num" /\ b.k = "num" ->
         IF b.n = 0
         THEN IF a.n = 0 THEN BnNaN ELSE BnSigned(a.n)
         ELSE LET d == LongDiv(Abs(a.n), Abs(b.n), DecimalPlaces)
                  m == d.q + (IF 2 * d.r >= Abs(b.n) THEN 1 ELSE 0)
              IN Num(Sign(a.n) * Sign(b.n) * m)
    [] a.k = "num" -> Num(0)
    [] b.k = "num" -> BnSigned(BnSign(a) * (IF b.n < 0 THEN 0 - 1 ELSE 1))
    [] OTHER -> BnNaN

\* new BigNumber(10).pow(e), e of either sign.
BnPow10(e) == IF e >= 0 THEN BnInt(Pow10(e)) ELSE Num(Pow10(DecimalPlaces + e))

BnEq(a, b) == a.k # "nan" /\ b.k # "nan" /\ a = b

BnLt(a, b) ==
  CASE a.k = "nan" \/ b.k = "nan" -> FALSE
    [] a.k = "num" /\ b.k = "num" -> a.n < b.n
    [] OTHER -> a.k # b.k /\ (a.k = "ninf" \/ b.k = "inf")

BnLte(a, b) == BnLt(a, b) \/ BnEq(a, b)

BnGt(a, b) == BnLt(b, a)

BnGte(a, b) == BnLt(b, a) \/ BnEq(a, b)

\* Rounding modes of the library.
ROUND_DOWN == 1

ROUND_FLOOR == 3

\* n, in units of 1/Scale, rounded to dp fractional digits; a mode other than
\* the two above is the library's default, half-up.
RoundInt(n, dp, mode) ==
  LET unit == Pow10(DecimalPlaces - dp)
      q == Abs(n) \div unit
      r == Abs(n) % unit
      up == CASE r = 0 -> 0
              [] mode = ROUND_DOWN -> 0
              [] mode = ROUND_FLOOR -> IF n < 0 THEN 1 ELSE 0
              [] OTHER -> IF 2 * r >= unit THEN 1 ELSE 0
  IN Sign(n) * (q + up) * unit

\* n rounded half-up, the rounding toFixed applies when given no mode.
RoundHalfUp(n, dp) == RoundInt(n, dp, ROUND_FLOOR + 1)

BnRoundTo(a, dp, mode) == IF a.k = "num" THEN Num(RoundInt(a.n, dp, mode)) ELSE a

RECURSIVE Digits(_, _)
\* The first dp fractional digits of m / Scale, 0 <= m < Scale.
Digits(m, dp) ==
  IF dp = 0 THEN <<>>
  ELSE Digits(m, dp - 1) \o <<(m \div Pow10(DecimalPlaces - dp)) % 10>>

NonNumText(a) ==
  CASE a.k = "inf" -> Lit("Infinity")
    [] a.k = "ninf" -> Lit("-Infinity")
    [] OTHER -> Lit("NaN")

\* toFixed(dp): the value rounded half-up, printed with exactly dp decimals.
BnToFixed(a, dp) ==
  IF a.k # "num" THEN NonNumText(a)
  ELSE LET m == Abs(RoundHalfUp(a.n, dp))
       IN DecStr(a.n < 0, m \div Scale, Digits(m % Scale, dp))

RECURSIVE SigPlaces(_, _)
\* Number of fractional digits of m / Scale up to its last non-zero one.
SigPlaces(m, dp) ==
  IF dp = 0 \/ (m \div Pow10(DecimalPlaces - dp)) % 10 # 0 THEN dp
  ELSE SigPlaces(m, dp - 1)

\* toFixed(): the value printed in full, without rounding.
BnToFixedAll(a) ==
  IF a.k # "num" THEN NonNumText(a)
  ELSE LET m == Abs(a.n)
       IN DecStr(a.n < 0, m \div Scale, Digits(m % Scale, SigPlaces(m % Scale, DecimalPlaces)))

\* ------------------------------------------------------------------------
\* Inputs: string | number | BigNumber
\* ------------------------------------------------------------------------

StrInput(s) == [t |-> "string", s |-> s, v |-> BnNaN]

NumInput(s) == [t |-> "number", s |-> s, v |-> BnNaN]

BnInput(v) == [t |-> "BigNumber", s |-> Lit(""), v |-> v]

NoInput == [t |-> "none", s |-> Lit(""), v |-> BnNaN]

\* The library's own coercion of an operand (a BigNumber is taken as it is).
BnOf(some) == IF some.t = "BigNumber" THEN some.v ELSE BnNew(some.s)

toBigNumber(some) == IF some.t = "BigNumber" THEN some.v ELSE BnNew(some.s)

\* ------------------------------------------------------------------------
\* Assets: instance 1 and instance 2 are distinct objects with the same id.
\* ------------------------------------------------------------------------

Assets ==
  << [id |-> "A", precision |-> 0],
     [id |-> "A", precision |-> 2],
     [id |-> "B", precision |-> 1] >>

AssetRefs == 1..Len(Assets)

\* ------------------------------------------------------------------------
\* Money
\* ------------------------------------------------------------------------

NoMoney == [asset |-> 0, coins |-> BnNaN, tokens |-> BnNaN]

AssetMismatch == "You cannot apply arithmetic operations to Money created with different assets"

DivisionByZero == "Division by zero: cannot divide Money by a zero amount"

InvalidNumericValue == "Invalid numeric value"

NonFiniteValue == "Non-finite numeric value"

\* What a call produces: an error, a new Money, an instance it was given
\* (the very object, not a copy), a boolean or a BigNumber.
Thrown(msg) == [err |-> msg, kind |-> "throw", m |-> NoMoney, b |-> FALSE, v |-> BnNaN]

Made(m) == [err |-> "", kind |-> "new", m |-> m, b |-> FALSE, v |-> BnNaN]

Same(m) == [err |-> "", kind |-> "same", m |-> m, b |-> FALSE, v |-> BnNaN]

Truth(b) == [err |-> "", kind |-> "bool", m |-> NoMoney, b |-> b, v |-> BnNaN]

Value(v) == [err |-> "", kind |-> "bn", m |-> NoMoney, b |-> FALSE, v |-> v]

Money_getDivider(precision) == BnPow10(precision)

\* Mutant: the coin amount is truncated toward zero instead of floored.
Money_constructor_truncates(coins, asset) ==
  LET divider == Money_getDivider(Assets[asset].precision)
      c == BnRoundTo(toBigNumber(coins), 0, ROUND_DOWN)
  IN [asset |-> asset, coins |-> c, tokens |-> BnDiv(c, divider)]

Money_constructor(coins, asset) ==
  LET divider == Money_getDivider(Assets[asset].precision)
      c == BnRoundTo(toBigNumber(coins), 0, ROUND_FLOOR)
  IN [asset |-> asset, coins |-> c, tokens |-> BnDiv(c, divider)]

Money_getCoins(m) == BnAdd(m.coins, BnInt(0))

Money_getTokens(m) == BnAdd(m.tokens, BnInt(0))

Money_toCoins(m) == BnToFixed(m.coins, 0)

Money_toTokens(m) == BnToFixed(m.tokens, Assets[m.asset].precision)

\* Mutant: assets are compared by reference instead of by id.
Money_matchAssets_byReference(this, money) ==
  IF this.asset # money.asset THEN AssetMismatch ELSE ""

\* The error _matchAssets raises, "" when it raises none.
Money_matchAssets(this, money) ==
  IF Assets[this.asset].id # Assets[money.asset].id THEN AssetMismatch ELSE ""

\* Mutant: add changes the instance it is called on and returns it.
Money_add_inPlace(this, money) ==
  IF Money_matchAssets(this, money) # "" THEN Thrown(AssetMismatch)
  ELSE Same(Money_constructor(
              BnInput(BnAdd(this.coins, Money_getCoins(money))), this.asset))

Money_add(this, money) ==
  IF Money_matchAssets(this, money) # "" THEN Thrown(AssetMismatch)
  ELSE Made(Money_constructor(
              BnInput(BnAdd(this.coins, Money_getCoins(money))), this.asset))

Money_sub(this, money) ==
  IF Money_matchAssets(this, money) # "" THEN Thrown(AssetMismatch)
  ELSE Made(Money_constructor(
              BnInput(BnSub(this.coins, Money_getCoins(money))), this.asset))

\* Mutant: the token amounts are multiplied instead of the coin amounts.
Money_times_tokens(this, money) ==
  IF Money_matchAssets(this, money) # "" THEN Thrown(AssetMismatch)
  ELSE Made(Money_constructor(
              BnInput(BnMul(Money_getTokens(this), Money_getTokens(money))),
              this.asset))

Money_times(this, money) ==
  IF Money_matchAssets(this, money) # "" THEN Thrown(AssetMismatch)
  ELSE Made(Money_constructor(
              BnInput(BnMul(Money_getCoins(this), Money_getCoins(money))),
              this.asset))

\* Mutant: the divisor is not checked for zero.
Money_div_unchecked(this, money) ==
  IF Money_matchAssets(this, money) # "" THEN Thrown(AssetMismatch)
  ELSE Made(Money_constructor(
              BnInput(BnDiv(Money_getCoins(this), Money_getCoins(money))),
              this.asset))

\* Mutant: the divisor is checked for zero before the assets are matched.
Money_div_zeroFirst(this, money) ==
  IF BnIsZero(Money_getCoins(money)) THEN Thrown(DivisionByZero)
  ELSE IF Money_matchAssets(this, money) # "" THEN Thrown(AssetMismatch)
  ELSE Made(Money_constructor(
              BnInput(BnDiv(Money_getCoins(this), Money_getCoins(money))),
              this.asset))

Money_div(this, money) ==
  IF Money_matchAssets(this, money) # "" THEN Thrown(AssetMismatch)
  ELSE IF BnIsZero(Money_getCoins(money)) THEN Thrown(DivisionByZero)
  ELSE Made(Money_constructor(
              BnInput(BnDiv(Money_getCoins(this), Money_getCoins(money))),
              this.asset))

Money_eq(this, money) ==
  IF Money_matchAssets(this, money) # "" THEN Thrown(AssetMismatch)
  ELSE Truth(BnEq(this.coins, Money_getCoins(money)))

Money_lt(this, money) ==
  IF Money_matchAssets(this, money) # "" THEN Thrown(AssetMismatch)
  ELSE Truth(BnLt(this.coins, Money_getCoins(money)))

Money_lte(this, money) ==
  IF Money_matchAssets(this, money) # "" THEN Thrown(AssetMismatch)
  ELSE Truth(BnLte(this.coins, Money_getCoins(money)))

Money_gt(this, money) ==
  IF Money_matchAssets(this, money) # "" THEN Thrown(AssetMismatch)
  ELSE Truth(BnGt(this.coins, Money_getCoins(money)))

Money_gte(this, money) ==
  IF Money_matchAssets(this, money) # "" THEN Thrown(AssetMismatch)
  ELSE Truth(BnGte(this.coins, Money_getCoins(money)))

\* Mutant: safeSub compares the assets by reference instead of by id.
Money_safeSub_byReference(this, money) ==
  IF this.asset = money.asset
  THEN Money_sub(this, money)
  ELSE Same(this)

Money_safeSub(this, money) ==
  IF Assets[this.asset].id = Assets[money.asset].id
  THEN Money_sub(this, money)
  ELSE Same(this)

Money_tokensToCoins(tokens, precision) ==
  LET divider == Money_getDivider(precision)
      fixed == BnToFixed(toBigNumber(tokens), precision)
  IN BnMul(BnNew(fixed), divider)

Money_cloneWithCoins(this, coins) ==
  Made(Money_constructor(coins, this.asset))

Money_cloneWithTokens(this, tokens) ==
  LET coins == Money_tokensToCoins(tokens, Assets[this.asset].precision)
  IN Made(Money_constructor(BnInput(coins), this.asset))

\* Mutant: toNonNegative clamps at "not above zero", so a zero amount is
\* replaced by a new instance.
Money_toNonNegative_lte(this) ==
  IF BnLte(Money_getTokens(this), BnInt(0))
  THEN Money_cloneWithTokens(this, NumInput(DecStr(FALSE, 0, <<>>)))
  ELSE Same(this)

Money_toNonNegative(this) ==
  IF BnLt(Money_getTokens(this), BnInt(0))
  THEN Money_cloneWithTokens(this, NumInput(DecStr(FALSE, 0, <<>>)))
  ELSE Same(this)

\* Mutant: convert short-circuits on the same Asset object, not on the same id.
Money_convert_byReference(money, asset, exchangeRate) ==
  IF money.asset = asset THEN Same(money)
  ELSE LET difference == Assets[money.asset].precision - Assets[asset].precision
           divider == BnPow10(difference)
           coins == Money_getCoins(money)
           result == BnToFixedAll(
                       BnRoundTo(BnDiv(BnMul(coins, BnOf(exchangeRate)), divider),
                                 0, ROUND_DOWN))
       IN Made(Money_constructor(BnInput(BnNew(result)), asset))

\* Mutant: convert floors the converted amount instead of truncating it.
Money_convert_floors(money, asset, exchangeRate) ==
  IF Assets[money.asset].id = Assets[asset].id THEN Same(money)
  ELSE LET difference == Assets[money.asset].precision - Assets[asset].precision
           divider == BnPow10(difference)
           coins == Money_getCoins(money)
           result == BnToFixedAll(
                       BnRoundTo(BnDiv(BnMul(coins, BnOf(exchangeRate)), divider),
                                 0, ROUND_FLOOR))
       IN Made(Money_constructor(BnInput(BnNew(result)), asset))

\* static convert(money, asset, exchangeRate)
Money_convert(money, asset, exchangeRate) ==
  IF Assets[money.asset].id = Assets[asset].id THEN Same(money)
  ELSE LET difference == Assets[money.asset].precision - Assets[asset].precision
           divider == BnPow10(difference)
           coins == Money_getCoins(money)
           result == BnToFixedAll(
                       BnRoundTo(BnDiv(BnMul(coins, BnOf(exchangeRate)), divider),
                                 0, ROUND_DOWN))
       IN Made(Money_constructor(BnInput(BnNew(result)), asset))

Money_convertTo(this, asset, exchangeRate) ==
  Money_convert(this, asset, BnInput(toBigNumber(exchangeRate)))

\* Mutant: the token amount is taken as a coin amount, without scaling.
Money_fromTokens_unscaled(count, asset) ==
  Made(Money_constructor(BnInput(toBigNumber(count)), asset))

Money_fromTokens(count, asset) ==
  LET tokens == toBigNumber(count)
  IN Made(Money_constructor(
            BnInput(BnMul(tokens, BnPow10(Assets[asset].precision))), asset))

Money_fromCoins(count, asset) == Made(Money_constructor(count, asset))

NoArgumentsMax == "Money.max() requires at least one argument"

NoArgumentsMin == "Money.min() requires at least one argument"

\* Mutant: the later of two equal amounts is taken.
RECURSIVE ReduceMax_later(_, _, _)
ReduceMax_later(max, moneyList, i) ==
  IF i > Len(moneyList) THEN Same(max)
  ELSE LET c == Money_gt(max, moneyList[i])
       IN IF c.kind = "throw" THEN c
          ELSE ReduceMax_later(IF c.b THEN max ELSE moneyList[i], moneyList, i + 1)

\* moneyList.reduce((max, money) => (max.gte(money) ? max : money)) from the
\* i-th argument on; the comparison may throw.
RECURSIVE ReduceMax(_, _, _)
ReduceMax(max, moneyList, i) ==
  IF i > Len(moneyList) THEN Same(max)
  ELSE LET c == Money_gte(max, moneyList[i])
       IN IF c.kind = "throw" THEN c
          ELSE ReduceMax(IF c.b THEN max ELSE moneyList[i], moneyList, i + 1)

RECURSIVE ReduceMin(_, _, _)
ReduceMin(min, moneyList, i) ==
  IF i > Len(moneyList) THEN Same(min)
  ELSE LET c == Money_lte(min, moneyList[i])
       IN IF c.kind = "throw" THEN c
          ELSE ReduceMin(IF c.b THEN min ELSE moneyList[i], moneyList, i + 1)

Money_max(moneyList) ==
  IF Len(moneyList) = 0 THEN Thrown(NoArgumentsMax)
  ELSE ReduceMax(moneyList[1], moneyList, 2)

Money_min(moneyList) ==
  IF Len(moneyList) = 0 THEN Thrown(NoArgumentsMin)
  ELSE ReduceMin(moneyList[1], moneyList, 2)

\* ------------------------------------------------------------------------
\* The config registry
\* ------------------------------------------------------------------------

\* Handlers are named by what they do to the data they are given.
\* (data) => data
Identity == "identity"

\* The value undefined.
Undefined == "undefined"

\* const storage: IConfig = { remapAsset: (data) => data, remapCandle: ... }
DefaultStorage == [key \in {"remapAsset", "remapCandle"} |-> Identity]

\* Names every object inherits from Object.prototype.
PrototypeNames == {"__proto__", "constructor"}

\* Object.hasOwn(object, key)
HasOwn(object, key) == key \in DOMAIN object

\* Object.keys(values), for values given as a sequence of [key, value] in
\* the order of its own keys.
ObjectKeys(values) == { values[i].key : i \in 1..Len(values) }

\* Object.assign(target, values): every own key of values is copied, an
\* undefined value too.
ObjectAssign(target, values) ==
  [key \in DOMAIN target \cup ObjectKeys(values) |->
     IF key \in ObjectKeys(values)
     THEN LET i == CHOOSE i \in 1..Len(values) :
                     /\ values[i].key = key
                     /\ \A j \in (i + 1)..Len(values) : values[j].key # key
          IN values[i].value
     ELSE target[key]]

UnknownConfigKey == "Unknown config key"

\* A key given as a string, and an object of values.
KeyArg(key) == [form |-> "string", key |-> key, values |-> <<>>]

ValuesArg(values) == [form |-> "object", key |-> "", values |-> values]

\* A BigNumber | null field that is null.
BnNull == [k |-> "null", n |-> 0]

NoAssetInfo ==
  [ticker |-> NoInput, id |-> NoInput, name |-> NoInput, precision |-> NoInput,
   description |-> NoInput, height |-> NoInput, timestamp |-> NoInput,
   sender |-> NoInput, quantity |-> NoInput, reissuable |-> NoInput,
   hasScript |-> NoInput, minSponsoredFee |-> NoInput]

NoAsset ==
  [ticker |-> NoInput, id |-> NoInput, name |-> NoInput, precision |-> NoInput,
   description |-> NoInput, height |-> NoInput, timestamp |-> NoInput,
   sender |-> NoInput, quantity |-> BnNaN, reissuable |-> NoInput,
   hasScript |-> NoInput, minSponsoredFee |-> BnNull, displayName |-> NoInput]

NoCandleInfo ==
  [time |-> NoInput, open |-> NoInput, close |-> NoInput, high |-> NoInput,
   low |-> NoInput, volume |-> NoInput, quoteVolume |-> NoInput,
   weightedAveragePrice |-> NoInput, maxHeight |-> NoInput, txsCount |-> NoInput]

NoCandle ==
  [time |-> NoInput, open |-> BnNaN, close |-> BnNaN, high |-> BnNaN,
   low |-> BnNaN, volume |-> BnNaN, quoteVolume |-> BnNaN,
   weightedAveragePrice |-> BnNaN, maxHeight |-> NoInput, txsCount |-> NoInput,
   shared |-> {}]

\* What a call on the registry or a constructor produces: an error, nothing,
\* a handler, an Asset or a Candle.
Failed(msg) ==
  [err |-> msg, kind |-> "throw", handler |-> Undefined, asset |-> NoAsset,
   candle |-> NoCandle]

Done ==
  [err |-> "", kind |-> "void", handler |-> Undefined, asset |-> NoAsset,
   candle |-> NoCandle]

Got(handler) ==
  [err |-> "", kind |-> "handler", handler |-> handler, asset |-> NoAsset,
   candle |-> NoCandle]

MadeAsset(asset) ==
  [err |-> "", kind |-> "Asset", handler |-> Undefined, asset |-> asset,
   candle |-> NoCandle]

MadeCandle(candle) ==
  [err |-> "", kind |-> "Candle", handler |-> Undefined, asset |-> NoAsset,
   candle |-> candle]

config_get(storage, key) == Got(storage[key])

\* The first key of values, from the i-th on, that is not among validKeys;
\* 0 when there is none.
RECURSIVE FirstUnknown(_, _, _)
FirstUnknown(values, validKeys, i) ==
  IF i > Len(values) THEN 0
  ELSE IF values[i].key \notin validKeys THEN i
  ELSE FirstUnknown(values, validKeys, i + 1)

\* Mutant: the key-value form tests the key with "in", which also finds
\* what the storage object inherits.
config_set_in(storage, keyOrValues, value) ==
  IF keyOrValues.form = "string"
  THEN IF keyOrValues.key \notin DOMAIN storage \cup PrototypeNames
       THEN [storage |-> storage, res |-> Failed(UnknownConfigKey)]
       ELSE IF value # Undefined
       THEN [storage |-> ObjectAssign(storage, << [key |-> keyOrValues.key, value |-> value] >>),
             res |-> Done]
       ELSE [storage |-> storage, res |-> Done]
  ELSE LET unknown == FirstUnknown(keyOrValues.values, DOMAIN storage, 1)
       IN IF unknown # 0
          THEN [storage |-> storage,
                res |-> Failed(UnknownConfigKey)]
          ELSE [storage |-> ObjectAssign(storage, keyOrValues.values), res |-> Done]

\* Mutant: the object form assigns each key as it accepts it, so the keys
\* before an unknown one are already stored when the call fails.
config_set_eager(storage, keyOrValues, value) ==
  IF keyOrValues.form = "string"
  THEN IF ~HasOwn(storage, keyOrValues.key)
       THEN [storage |-> storage, res |-> Failed(UnknownConfigKey)]
       ELSE IF value # Undefined
       THEN [storage |-> ObjectAssign(storage, << [key |-> keyOrValues.key, value |-> value] >>),
             res |-> Done]
       ELSE [storage |-> storage, res |-> Done]
  ELSE LET unknown == FirstUnknown(keyOrValues.values, DOMAIN storage, 1)
       IN IF unknown # 0
          THEN [storage |-> ObjectAssign(storage, SubSeq(keyOrValues.values, 1, unknown - 1)),
                res |-> Failed(UnknownConfigKey)]
          ELSE [storage |-> ObjectAssign(storage, keyOrValues.values), res |-> Done]

\* Mutant: the key-value form stores the value without testing it.
config_set_unguarded(storage, keyOrValues, value) ==
  IF keyOrValues.form = "string"
  THEN IF ~HasOwn(storage, keyOrValues.key)
       THEN [storage |-> storage, res |-> Failed(UnknownConfigKey)]
       ELSE [storage |-> ObjectAssign(storage, << [key |-> keyOrValues.key, value |-> value] >>),
             res |-> Done]
  ELSE LET unknown == FirstUnknown(keyOrValues.values, DOMAIN storage, 1)
       IN IF unknown # 0
          THEN [storage |-> storage,
                res |-> Failed(UnknownConfigKey)]
          ELSE [storage |-> ObjectAssign(storage, keyOrValues.values), res |-> Done]

\* config.set(keyOrValues, value): the storage it leaves and its outcome.
config_set(storage, keyOrValues, value) ==
  IF keyOrValues.form = "string"
  THEN IF ~HasOwn(storage, keyOrValues.key)
       THEN [storage |-> storage, res |-> Failed(UnknownConfigKey)]
       ELSE IF value # Undefined
       THEN [storage |-> ObjectAssign(storage, << [key |-> keyOrValues.key, value |-> value] >>),
             res |-> Done]
       ELSE [storage |-> storage, res |-> Done]
  ELSE LET validKeys == DOMAIN storage
           unknown == FirstUnknown(keyOrValues.values, validKeys, 1)
       IN IF unknown # 0
          THEN [storage |-> storage,
                res |-> Failed(UnknownConfigKey)]
          ELSE [storage |-> ObjectAssign(storage, keyOrValues.values), res |-> Done]

\* ------------------------------------------------------------------------
\* Asset and Candle
\* ------------------------------------------------------------------------

\* Values other than strings, numbers and BigNumbers that a field may hold.
NullInput == [t |-> "null", s |-> Lit(""), v |-> BnNaN]

BoolInput(b) == [t |-> "boolean", s |-> Lit(IF b THEN "true" ELSE "false"), v |-> BnNaN]

DateInput(iso) == [t |-> "Date", s |-> Lit(iso), v |-> BnNaN]

\* A string of text and a whole number, as field values.
Text(x) == StrInput(Lit(x))

Whole(i) == NumInput(DecStr(i < 0, Abs(i), <<>>))

\* typeof x === 'string'
IsString(x) == x.t = "string"

\* x.length === 0, for a string
IsEmpty(x) == x.s = Lit("")

\* Number.isInteger(x)
Number_isInteger(x) ==
  /\ x.t = "number"
  /\ x.s.lit = "dec"
  /\ \A i \in 1..Len(x.s.frac) : x.s.frac[i] = 0

\* x < 0, for an integer x
IsBelowZero(x) == x.s.neg /\ x.s.ip # 0

\* x ?? y
Coalesce(x, y) == IF x.t \in {"none", "null"} THEN y ELSE x

\* The handlers a key is given, by name: the default, and the handlers the
\* tests register, (asset) => ({ ...asset, name: 'REMAPPED' }) and
\* (candle) => ({ ...candle, open: '999', txsCount: 0 }).
AssetHandlers == {Identity, "rename"}

CandleHandlers == {Identity, "reopen"}

\* handler(data)
Apply(handler, data) ==
  CASE handler = "rename" -> [data EXCEPT !.name = Text("REMAPPED")]
    [] handler = "reopen" -> [data EXCEPT !.open = StrInput(DecStr(FALSE, 999, <<>>)),
                                          !.txsCount = Whole(0)]
    [] OTHER -> data

NotAFunction == "is not a function"

InvalidAssetId == "Invalid asset id: must be a non-empty string"

InvalidAssetName == "Invalid asset name: must be a non-empty string"

InvalidAssetSender == "Invalid asset sender: must be a non-empty string"

InvalidPrecision == "Invalid precision: must be a non-negative integer"

InvalidHeight == "Invalid height: must be a non-negative integer"

\* Mutant: the height is tested for being an integer only.
Asset_validate_anyHeight(remapped) ==
  IF ~IsString(remapped.id) \/ IsEmpty(remapped.id) THEN InvalidAssetId
  ELSE IF ~IsString(remapped.name) \/ IsEmpty(remapped.name) THEN InvalidAssetName
  ELSE IF ~IsString(remapped.sender) \/ IsEmpty(remapped.sender) THEN InvalidAssetSender
  ELSE IF ~Number_isInteger(remapped.precision) \/ IsBelowZero(remapped.precision)
  THEN InvalidPrecision
  ELSE IF ~Number_isInteger(remapped.height) THEN InvalidHeight
  ELSE ""

\* The validation of the critical fields: the error it throws, "" for none.
Asset_validate(remapped) ==
  IF ~IsString(remapped.id) \/ IsEmpty(remapped.id) THEN InvalidAssetId
  ELSE IF ~IsString(remapped.name) \/ IsEmpty(remapped.name) THEN InvalidAssetName
  ELSE IF ~IsString(remapped.sender) \/ IsEmpty(remapped.sender) THEN InvalidAssetSender
  ELSE IF ~Number_isInteger(remapped.precision) \/ IsBelowZero(remapped.precision)
  THEN InvalidPrecision
  ELSE IF ~Number_isInteger(remapped.height) \/ IsBelowZero(remapped.height)
  THEN InvalidHeight
  ELSE ""

\* Mutant: the display name is ticker || name, so an empty ticker gives way
\* to the name.
Asset_assign_orName(remapped) ==
  [ticker |-> Coalesce(remapped.ticker, NullInput),
   id |-> remapped.id,
   name |-> remapped.name,
   precision |-> remapped.precision,
   description |-> remapped.description,
   height |-> remapped.height,
   timestamp |-> remapped.timestamp,
   sender |-> remapped.sender,
   quantity |-> toBigNumber(remapped.quantity),
   reissuable |-> remapped.reissuable,
   hasScript |-> Coalesce(remapped.hasScript, BoolInput(FALSE)),
   minSponsoredFee |->
     IF remapped.minSponsoredFee.t \notin {"none", "null"}
     THEN toBigNumber(remapped.minSponsoredFee) ELSE BnNull,
   displayName |->
     IF remapped.ticker.t \in {"none", "null"} \/ IsEmpty(remapped.ticker)
     THEN remapped.name ELSE remapped.ticker]

\* The fields the constructor assigns.
Asset_assign(remapped) ==
  [ticker |-> Coalesce(remapped.ticker, NullInput),
   id |-> remapped.id,
   name |-> remapped.name,
   precision |-> remapped.precision,
   description |-> remapped.description,
   height |-> remapped.height,
   timestamp |-> remapped.timestamp,
   sender |-> remapped.sender,
   quantity |-> toBigNumber(remapped.quantity),
   reissuable |-> remapped.reissuable,
   hasScript |-> Coalesce(remapped.hasScript, BoolInput(FALSE)),
   minSponsoredFee |->
     IF remapped.minSponsoredFee.t \notin {"none", "null"}
     THEN toBigNumber(remapped.minSponsoredFee) ELSE BnNull,
   displayName |-> Coalesce(remapped.ticker, remapped.name)]

\* Mutant: the constructor validates the fields it was given and stores the
\* remapped ones.
Asset_constructor_validatesInput(storage, assetObject) ==
  IF storage["remapAsset"] = Undefined THEN Failed(NotAFunction)
  ELSE LET remapped == Apply(storage["remapAsset"], assetObject)
       IN IF Asset_validate(assetObject) # "" THEN Failed(Asset_validate(assetObject))
          ELSE MadeAsset(Asset_assign(remapped))

\* new Asset(assetObject), with the registry as it is at the call.
Asset_constructor(storage, assetObject) ==
  IF storage["remapAsset"] = Undefined THEN Failed(NotAFunction)
  ELSE LET remapped == Apply(storage["remapAsset"], assetObject)
       IN IF Asset_validate(remapped) # "" THEN Failed(Asset_validate(remapped))
          ELSE MadeAsset(Asset_assign(remapped))

\* The fields of a Candle that go through toBigNumber.
DecimalFields ==
  {"open", "close", "high", "low", "volume", "quoteVolume", "weightedAveragePrice"}

\* toBigNumber returns its argument itself, not a new BigNumber.
SameInstance(some) == some.t = "BigNumber"

\* new Candle(candleObject), with the registry as it is at the call.
\* shared: the decimal fields that hold the very BigNumber of the input.
Candle_constructor_unhooked(storage, candleObject) ==
  IF storage["remapCandle"] = Undefined THEN Failed(NotAFunction)
  ELSE LET remapped == candleObject
       IN MadeCandle([time |-> remapped.time,
                      open |-> toBigNumber(remapped.open),
                      close |-> toBigNumber(remapped.close),
                      high |-> toBigNumber(remapped.high),
                      low |-> toBigNumber(remapped.low),
                      volume |-> toBigNumber(remapped.volume),
                      quoteVolume |-> toBigNumber(remapped.quoteVolume),
                      weightedAveragePrice |-> toBigNumber(remapped.weightedAveragePrice),
                      maxHeight |-> remapped.maxHeight,
                      txsCount |-> remapped.txsCount,
                      shared |-> {f \in DecimalFields : SameInstance(remapped[f])}])

Candle_constructor(storage, candleObject) ==
  IF storage["remapCandle"] = Undefined THEN Failed(NotAFunction)
  ELSE LET remapped == Apply(storage["remapCandle"], candleObject)
       IN MadeCandle([time |-> remapped.time,
                      open |-> toBigNumber(remapped.open),
                      close |-> toBigNumber(remapped.close),
                      high |-> toBigNumber(remapped.high),
                      low |-> toBigNumber(remapped.low),
                      volume |-> toBigNumber(remapped.volume),
                      quoteVolume |-> toBigNumber(remapped.quoteVolume),
                      weightedAveragePrice |-> toBigNumber(remapped.weightedAveragePrice),
                      maxHeight |-> remapped.maxHeight,
                      txsCount |-> remapped.txsCount,
                      shared |-> {f \in DecimalFields : SameInstance(remapped[f])}])

\* ------------------------------------------------------------------------
\* AssetPair and OrderPrice
\* ------------------------------------------------------------------------

\* The matcher scale of 10^8 takes a price beyond the range of the decimals
\* above, so a price is a decimal of mantissa m and exponent e, m * 10^e,
\* without trailing zeros in m; k says whether it is a number or NaN.
RECURSIVE Strip(_, _)
Strip(m, e) ==
  IF m = 0 THEN [m |-> 0, e |-> 0]
  ELSE IF m % 10 = 0 THEN Strip(m \div 10, e + 1)
  ELSE [m |-> m, e |-> e]

Big(m, e) == [k |-> "num", m |-> Strip(m, e).m, e |-> Strip(m, e).e]

BigNaN == [k |-> "nan", m |-> 0, e |-> 0]

\* The text of a number: its sign, the digits before and after the point.
NumStr(neg, int, frac) == [lit |-> "digits", neg |-> neg, int |-> int, frac |-> frac]

\* A text that is no number ("abc", "NaN", "[object Object]").
WordStr == [lit |-> "word", neg |-> FALSE, int |-> <<>>, frac |-> <<>>]

NoStr == [lit |-> "none", neg |-> FALSE, int |-> <<>>, frac |-> <<>>]

RECURSIVE FoldDigits(_)
FoldDigits(ds) ==
  IF ds = <<>> THEN 0
  ELSE 10 * FoldDigits(SubSeq(ds, 1, Len(ds) - 1)) + ds[Len(ds)]

RECURSIVE TrailingZeros(_)
TrailingZeros(ds) ==
  IF ds = <<>> \/ ds[Len(ds)] # 0 THEN 0
  ELSE 1 + TrailingZeros(SubSeq(ds, 1, Len(ds) - 1))

RECURSIVE DigitsOf(_)
DigitsOf(n) == IF n < 10 THEN <<n>> ELSE DigitsOf(n \div 10) \o <<n % 10>>

Zeros(c) == [i \in 1..c |-> 0]

\* new BigNumber(text): the digits read as a number, NaN for any other text.
BigNew(s) ==
  IF s.lit # "digits" THEN BigNaN
  ELSE LET all == s.int \o s.frac
           z == TrailingZeros(all)
           n == FoldDigits(SubSeq(all, 1, Len(all) - z))
       IN Big(IF s.neg THEN 0 - n ELSE n, z - Len(s.frac))

\* a.mul(b)
BigMul(a, b) ==
  IF a.k = "nan" \/ b.k = "nan" THEN BigNaN ELSE Big(a.m * b.m, a.e + b.e)

\* a.div(b) for a divisor that is a power of ten, the only divisors an
\* OrderPrice has: the quotient is a shift of the point, which the library
\* holds exactly for the values used here.
BigDiv(a, b) ==
  IF a.k = "nan" \/ b.k = "nan" \/ b.m = 0 THEN BigNaN
  ELSE Big(a.m \div b.m, a.e - b.e)

RECURSIVE IntPow(_, _)
IntPow(m, n) == IF n = 0 THEN 1 ELSE m * IntPow(m, n - 1)

\* a.pow(n); a negative n gives the reciprocal of a.pow(-n).
BigPow(a, n) ==
  IF a.k = "nan" THEN BigNaN
  ELSE IF n >= 0 THEN Big(IntPow(a.m, n), a.e * n)
  ELSE BigDiv(Big(1, 0), Big(IntPow(a.m, 0 - n), a.e * (0 - n)))

\* a.toFixed(dp): the text with dp digits after the point, the digits
\* beyond them rounded half up (away from zero).
BigToFixed(a, dp) ==
  IF a.k = "nan" THEN WordStr
  ELSE LET mag == Abs(a.m)
           drop == 0 - a.e - dp
           r == IF drop > 0 THEN (mag + 5 * Pow10(drop - 1)) \div Pow10(drop)
                ELSE mag
           re == IF drop > 0 THEN 0 - dp ELSE a.e
           int == IF re >= 0
                  THEN (IF r = 0 THEN <<0>> ELSE DigitsOf(r) \o Zeros(re))
                  ELSE DigitsOf(r \div Pow10(0 - re))
           low == DigitsOf(r % Pow10(0 - re))
           frac == IF re >= 0 THEN Zeros(dp)
                   ELSE Zeros(0 - re - Len(low)) \o low \o Zeros(dp + re)
       IN NumStr(a.m < 0, int, frac)

\* What a caller passes for an amount: a text, a number (read by its
\* decimal text), a BigNumber, or a value of another type.
PriceInput(t, s, v) == [t |-> t, s |-> s, v |-> v]

PriceText(s) == PriceInput("string", s, BigNaN)

PriceNumber(s) == PriceInput("number", s, BigNaN)

PriceDecimal(v) == PriceInput("BigNumber", NoStr, v)

\* {} , null, undefined, true: none of them reads as a number.
PriceOther(t) == PriceInput(t, WordStr, BigNaN)

NoPriceInput == PriceInput("none", NoStr, BigNaN)

\* toBigNumber on an amount of a price.
OrderPrice_toBigNumber(some) ==
  IF some.t = "BigNumber" THEN some.v ELSE BigNew(some.s)

\* The assets of the pairs: id and precision; the references to them are
\* the indices.
PairAssets ==
  << [id |-> "ZERO", precision |-> 0],
     [id |-> "TWO", precision |-> 2],
     [id |-> "NINE", precision |-> 9] >>

PairAssetRefs == DOMAIN PairAssets

AssetPair_constructor_reversed(amountAsset, priceAsset) ==
  [amountAsset |-> amountAsset, priceAsset |-> priceAsset,
   precisionDifference |->
     PairAssets[amountAsset].precision - PairAssets[priceAsset].precision]

AssetPair_constructor(amountAsset, priceAsset) ==
  [amountAsset |-> amountAsset, priceAsset |-> priceAsset,
   precisionDifference |->
     PairAssets[priceAsset].precision - PairAssets[amountAsset].precision]

NoPair == [amountAsset |-> 0, priceAsset |-> 0, precisionDifference |-> 0]

NoPrice == [pair |-> NoPair, matcherCoins |-> BigNaN, tokens |-> BigNaN]

InvalidInputType ==
  "Please use strings, numbers, or BigNumber to create instances of OrderPrice"

\* What a call on a pair or a price comes to: an error, a pair, a price or
\* a text.
Raised(msg) == [err |-> msg, kind |-> "throw", pair |-> NoPair, price |-> NoPrice, str |-> NoStr]

MadePair(pair) == [err |-> "", kind |-> "pair", pair |-> pair, price |-> NoPrice, str |-> NoStr]

MadePrice(price) == [err |-> "", kind |-> "price", pair |-> NoPair, price |-> price, str |-> NoStr]

Wrote(str) == [err |-> "", kind |-> "text", pair |-> NoPair, price |-> NoPrice, str |-> str]

MATCHER_SCALE == BigPow(BigNew(NumStr(FALSE, <<1, 0>>, <<>>)), 8)

OrderPrice_getMatcherDivider(precision) ==
  BigMul(BigPow(BigNew(NumStr(FALSE, <<1, 0>>, <<>>)), precision), MATCHER_SCALE)

OrderPrice_constructor_integral(coins, pair) ==
  LET divider == OrderPrice_getMatcherDivider(pair.precisionDifference)
      whole == BigNew(BigToFixed(coins, 0))
  IN [pair |-> pair, matcherCoins |-> whole, tokens |-> BigDiv(whole, divider)]

OrderPrice_constructor(coins, pair) ==
  LET divider == OrderPrice_getMatcherDivider(pair.precisionDifference)
  IN [pair |-> pair, matcherCoins |-> coins, tokens |-> BigDiv(coins, divider)]

OrderPrice_toMatcherCoins(this) == BigToFixed(this.matcherCoins, 0)

OrderPrice_toTokens(this) ==
  BigToFixed(this.tokens, PairAssets[this.pair.priceAsset].precision)

\* TRUE when the amount passes, where the code returns without throwing.
OrderPrice_checkAmount_any(amount) == TRUE

OrderPrice_checkAmount(amount) == amount.t \in {"string", "number", "BigNumber"}

OrderPrice_fromMatcherCoins(coins, pair) ==
  IF ~OrderPrice_checkAmount(coins) THEN Raised(InvalidInputType)
  ELSE MadePrice(OrderPrice_constructor(OrderPrice_toBigNumber(coins), pair))

OrderPrice_fromTokens_unrounded(tokens, pair) ==
  IF ~OrderPrice_checkAmount(tokens) THEN Raised(InvalidInputType)
  ELSE LET divider == OrderPrice_getMatcherDivider(pair.precisionDifference)
           coins == BigMul(OrderPrice_toBigNumber(tokens), divider)
       IN MadePrice(OrderPrice_constructor(coins, pair))

OrderPrice_fromTokens(tokens, pair) ==
  IF ~OrderPrice_checkAmount(tokens) THEN Raised(InvalidInputType)
  ELSE LET fixed == BigToFixed(OrderPrice_toBigNumber(tokens),
                               PairAssets[pair.priceAsset].precision)
           divider == OrderPrice_getMatcherDivider(pair.precisionDifference)
           coins == BigMul(BigNew(fixed), divider)
       IN MadePrice(OrderPrice_constructor(coins, pair))

\* ------------------------------------------------------------------------
\* The caller: a heap of Money instances and the outcome of the last call
\* ------------------------------------------------------------------------

\* heap: the Money instances the caller holds; last: the call it made last
\* and what came of it.
VARIABLES heap, last

\* storage: the config registry; latest: for each of its keys, the handler
\* of the last successful config.set that gave it a defined one; assets,
\* candles: the entities the caller holds; call: the call on the registry or
\* on a constructor made last, with the storage it found.
VARIABLES storage, latest, assets, candles, call

\* pairs: the AssetPairs the caller holds; quote: the call on a pair or a
\* price made last, and what came of it.
VARIABLES pairs, quote

moneyVars == <<heap, last>>

registryVars == <<storage, latest, assets, candles, call>>

priceVars == <<pairs, quote>>

vars == <<heap, last, storage, latest, assets, candles, call, pairs, quote>>

\* "2.5", "-0.5", 0, "abc", Infinity, a NaN BigNumber
CoinInputs ==
  { StrInput(DecStr(FALSE, 2, <<5>>)),
    StrInput(DecStr(TRUE, 0, <<5>>)),
    NumInput(DecStr(FALSE, 0, <<>>)),
    StrInput(Lit("abc")),
    NumInput(Lit("Infinity")),
    BnInput(BnNaN) }

\* "1.50", "-0.25", "2", "0.5"
TokenInputs ==
  { StrInput(DecStr(FALSE, 1, <<5, 0>>)),
    StrInput(DecStr(TRUE, 0, <<2, 5>>)),
    StrInput(DecStr(FALSE, 2, <<>>)),
    StrInput(DecStr(FALSE, 0, <<5>>)) }

\* "", NaN, -Infinity, "Infinity", a BigNumber 42, a BigNumber -Infinity
BoundaryInputs ==
  CoinInputs \cup TokenInputs \cup
  { StrInput(Lit("")),
    NumInput(Lit("NaN")),
    NumInput(Lit("-Infinity")),
    StrInput(Lit("Infinity")),
    BnInput(BnInt(42)),
    BnInput(BnNegInf) }

\* "2", "0.5", "-1.5"
Rates ==
  { StrInput(DecStr(FALSE, 2, <<>>)),
    StrInput(DecStr(FALSE, 0, <<5>>)),
    StrInput(DecStr(TRUE, 1, <<5>>)) }

NoResult == [err |-> "", kind |-> "none", m |-> NoMoney, b |-> FALSE, v |-> BnNaN]

NoCall ==
  [op |-> "none", this |-> NoMoney, arg |-> NoMoney, x |-> NoInput, asset |-> 0,
   list |-> <<>>, res |-> NoResult]

NoRegistryCall ==
  [op |-> "none", keyOrValues |-> KeyArg(""), value |-> Undefined,
   asset |-> NoAssetInfo, candle |-> NoCandleInfo, before |-> DefaultStorage,
   res |-> Done]

NoQuote ==
  [op |-> "none", amountAsset |-> 0, priceAsset |-> 0, input |-> NoPriceInput,
   pair |-> NoPair, this |-> NoPrice, res |-> Wrote(NoStr),
   src |-> NoPriceInput, leg |-> 0]

Init ==
  /\ pairs = {}
  /\ quote = NoQuote
  /\ heap = {}
  /\ last = NoCall
  /\ storage = DefaultStorage
  /\ latest = DefaultStorage
  /\ assets = {}
  /\ candles = {}
  /\ call = NoRegistryCall

\* The caller is between two calls.
Idle == last.op = "none"

\* A Money stays within the coin range the model covers.
Fits(m) == m.coins.k = "num" => Abs(m.coins.n) <= MaxCoins * Scale

\* The product of two coin amounts stays within the range.
FitsProduct(a, b) ==
  (a.k = "num" /\ b.k = "num") =>
    (Abs(a.n) \div Scale + 1) * (Abs(b.n) \div Scale + 1) <= MaxCoins

\* The call returns to its caller, which holds the outcome.  The heap holds
\* the instances up to their value: no method compares Money references, so
\* two instances of one asset and one amount behave alike.
Return(op, this, arg, x, asset, res) ==
  /\ heap' = heap
  /\ last' = [op |-> op, this |-> this, arg |-> arg, x |-> x, asset |-> asset,
              list |-> <<>>, res |-> res]
  /\ UNCHANGED <<registryVars, priceVars>>

\* The same for a call on an argument list.
ReturnOfList(op, moneyList, res) ==
  /\ heap' = heap
  /\ last' = [op |-> op, this |-> NoMoney, arg |-> NoMoney, x |-> NoInput,
              asset |-> 0, list |-> moneyList, res |-> res]
  /\ UNCHANGED <<registryVars, priceVars>>

\* The argument lists over the instances held.
MoneyLists == UNION { [1..n -> heap] : n \in 0..MaxArgs }

\* The caller binds the instance the call made and goes on with it.
Keep ==
  /\ last.res.kind = "new"
  /\ Cardinality(heap) < MaxMonies
  /\ Fits(last.res.m)
  /\ heap' = heap \cup {last.res.m}
  /\ last' = NoCall
  /\ UNCHANGED <<registryVars, priceVars>>

\* The caller lets go of the outcome and goes on with what it had.
Drop ==
  /\ ~Idle
  /\ heap' = heap
  /\ last' = NoCall
  /\ UNCHANGED <<registryVars, priceVars>>

CallToBigNumber ==
  /\ Idle
  /\ \E x \in BoundaryInputs :
       Return("toBigNumber", NoMoney, NoMoney, x, 0, Value(toBigNumber(x)))

NewMoney ==
  /\ Idle
  /\ \E x \in CoinInputs, a \in AssetRefs :
       Return("new", NoMoney, NoMoney, x, a, Made(Money_constructor(x, a)))

FromCoins ==
  /\ Idle
  /\ \E x \in CoinInputs, a \in AssetRefs :
       Return("fromCoins", NoMoney, NoMoney, x, a, Money_fromCoins(x, a))

FromTokens ==
  /\ Idle
  /\ \E x \in TokenInputs, a \in AssetRefs :
       Return("fromTokens", NoMoney, NoMoney, x, a, Money_fromTokens(x, a))

Add ==
  /\ Idle
  /\ \E this \in heap, money \in heap :
       Return("add", this, money, NoInput, 0, Money_add(this, money))

Sub ==
  /\ Idle
  /\ \E this \in heap, money \in heap :
       Return("sub", this, money, NoInput, 0, Money_sub(this, money))

Times ==
  /\ Idle
  /\ \E this \in heap, money \in heap :
       /\ FitsProduct(this.coins, money.coins)
       /\ Return("times", this, money, NoInput, 0, Money_times(this, money))

Div ==
  /\ Idle
  /\ \E this \in heap, money \in heap :
       Return("div", this, money, NoInput, 0, Money_div(this, money))

Eq ==
  /\ Idle
  /\ \E this \in heap, money \in heap :
       Return("eq", this, money, NoInput, 0, Money_eq(this, money))

Lt ==
  /\ Idle
  /\ \E this \in heap, money \in heap :
       Return("lt", this, money, NoInput, 0, Money_lt(this, money))

Lte ==
  /\ Idle
  /\ \E this \in heap, money \in heap :
       Return("lte", this, money, NoInput, 0, Money_lte(this, money))

Gt ==
  /\ Idle
  /\ \E this \in heap, money \in heap :
       Return("gt", this, money, NoInput, 0, Money_gt(this, money))

Gte ==
  /\ Idle
  /\ \E this \in heap, money \in heap :
       Return("gte", this, money, NoInput, 0, Money_gte(this, money))

SafeSub ==
  /\ Idle
  /\ \E this \in heap, money \in heap :
       Return("safeSub", this, money, NoInput, 0, Money_safeSub(this, money))

ToNonNegative ==
  /\ Idle
  /\ \E this \in heap :
       Return("toNonNegative", this, NoMoney, NoInput, 0, Money_toNonNegative(this))

CloneWithCoins ==
  /\ Idle
  /\ \E this \in heap, x \in CoinInputs :
       Return("cloneWithCoins", this, NoMoney, x, 0, Money_cloneWithCoins(this, x))

CloneWithTokens ==
  /\ Idle
  /\ \E this \in heap, x \in TokenInputs :
       Return("cloneWithTokens", this, NoMoney, x, 0, Money_cloneWithTokens(this, x))

\* coins * rate / 10^difference, where it is computed, stays within the range.
FitsConversion(m, a, rate) ==
  LET up == Assets[a].precision - Assets[m.asset].precision
      r == BnOf(rate)
  IN (Assets[m.asset].id # Assets[a].id /\ m.coins.k = "num" /\ r.k = "num") =>
       (Abs(m.coins.n) \div Scale + 1) * (Abs(r.n) \div Scale + 1)
         * Pow10(IF up > 0 THEN up ELSE 0) <= MaxCoins

ConvertTo ==
  /\ Idle
  /\ \E this \in heap, a \in AssetRefs, r \in Rates :
       /\ FitsConversion(this, a, r)
       /\ Return("convertTo", this, NoMoney, r, a, Money_convertTo(this, a, r))

Convert ==
  /\ Idle
  /\ \E money \in heap, a \in AssetRefs, r \in Rates :
       /\ FitsConversion(money, a, r)
       /\ Return("convert", money, NoMoney, r, a, Money_convert(money, a, r))

Max ==
  /\ Idle
  /\ \E moneyList \in MoneyLists : ReturnOfList("max", moneyList, Money_max(moneyList))

Min ==
  /\ Idle
  /\ \E moneyList \in MoneyLists : ReturnOfList("min", moneyList, Money_min(moneyList))

Next ==
  \/ CallToBigNumber
  \/ NewMoney
  \/ FromCoins
  \/ FromTokens
  \/ Add
  \/ Sub
  \/ Times
  \/ Div
  \/ Eq
  \/ Lt
  \/ Lte
  \/ Gt
  \/ Gte
  \/ SafeSub
  \/ ToNonNegative
  \/ CloneWithCoins
  \/ CloneWithTokens
  \/ ConvertTo
  \/ Convert
  \/ Max
  \/ Min
  \/ Keep
  \/ Drop

Spec == Init /\ [][Next]_vars

\* ------------------------------------------------------------------------
\* The caller of the registry and of the Asset and Candle constructors
\* ------------------------------------------------------------------------

ValidKeys == {"remapAsset", "remapCandle"}

\* The keys config.set is called with.
Keys == ValidKeys \cup {"maliciousKey"} \cup PrototypeNames

\* The values a key is given.
ValuesFor(key) ==
  CASE key = "remapAsset" -> AssetHandlers \cup {Undefined}
    [] key = "remapCandle" -> CandleHandlers \cup {Undefined}
    [] OTHER -> {Identity, Undefined}

Entry(key, value) == [key |-> key, value |-> value]

\* The objects config.set is called with, as their own keys in order.
PartialMaps ==
  { <<>>,
    << Entry("remapAsset", "rename"), Entry("remapCandle", "reopen") >>,
    << Entry("remapCandle", Identity), Entry("remapAsset", Identity) >>,
    << Entry("remapAsset", "rename") >>,
    << Entry("remapCandle", "reopen") >>,
    << Entry("maliciousKey", Identity) >>,
    << Entry("constructor", Identity) >>,
    << Entry("__proto__", Identity) >>,
    << Entry("remapAsset", "rename"), Entry("maliciousKey", Identity) >>,
    << Entry("constructor", Identity), Entry("remapCandle", "reopen") >>,
    << Entry("remapAsset", Undefined) >>,
    << Entry("remapCandle", Undefined), Entry("remapAsset", "rename") >> }

\* The raw asset data of the tests.
DefaultData ==
  [ticker |-> NoInput,
   id |-> Text("default-id"),
   name |-> Text("Default Name"),
   precision |-> Whole(8),
   description |-> Text("Default description"),
   height |-> Whole(10),
   timestamp |-> DateInput("2016-04-12"),
   sender |-> Text("3Pxxxxxxxxxxxxxxxxxxxxxxxxxxxxxxxxx"),
   quantity |-> Whole(1000),
   reissuable |-> BoolInput(FALSE),
   hasScript |-> BoolInput(TRUE),
   minSponsoredFee |-> Whole(500)]

\* getAssetData(partialData), for one field given another value.
AssetInputs ==
  {DefaultData}
  \cup { [DefaultData EXCEPT !.ticker = x] : x \in {Text("TN2"), Text(""), NullInput} }
  \cup { [DefaultData EXCEPT !.id = x] : x \in {Text(""), Whole(5), NoInput} }
  \cup { [DefaultData EXCEPT !.name = x] : x \in {Text(""), NullInput} }
  \cup { [DefaultData EXCEPT !.sender = x] : x \in {Text(""), BoolInput(TRUE)} }
  \cup { [DefaultData EXCEPT !.precision = x] :
           x \in {Whole(0), Whole(0 - 1), NumInput(DecStr(FALSE, 1, <<5>>)),
                  NumInput(Lit("NaN")), StrInput(DecStr(FALSE, 8, <<>>))} }
  \cup { [DefaultData EXCEPT !.height = x] :
           x \in {Whole(0), Whole(0 - 2), NumInput(DecStr(FALSE, 0, <<5>>)),
                  NumInput(Lit("Infinity")), NoInput} }
  \cup { [DefaultData EXCEPT !.quantity = x] : x \in {Text("abc"), BnInput(BnInt(7))} }
  \cup { [DefaultData EXCEPT !.hasScript = x] : x \in {NoInput, BoolInput(FALSE)} }
  \cup { [DefaultData EXCEPT !.minSponsoredFee = x] :
           x \in {NoInput, NullInput, StrInput(DecStr(FALSE, 1, <<>>))} }

\* The raw candle data of the tests, with amounts in the model's range.
CandleData ==
  [time |-> DateInput("2024-01-15T12:00:00Z"),
   open |-> StrInput(DecStr(FALSE, 100, <<5>>)),
   close |-> StrInput(DecStr(FALSE, 105, <<2>>)),
   high |-> StrInput(DecStr(FALSE, 110, <<0>>)),
   low |-> StrInput(DecStr(FALSE, 95, <<3>>)),
   volume |-> StrInput(DecStr(FALSE, 500, <<>>)),
   quoteVolume |-> StrInput(DecStr(FALSE, 5250, <<>>)),
   weightedAveragePrice |-> StrInput(DecStr(FALSE, 102, <<8>>)),
   maxHeight |-> Whole(1000),
   txsCount |-> Whole(42)]

CandleInputs ==
  { CandleData,
    [CandleData EXCEPT !.open = NumInput(DecStr(FALSE, 100, <<5>>))],
    [CandleData EXCEPT !.open = BnInput(Num(100 * Scale + Scale \div 2))],
    [CandleData EXCEPT !.close = Text("abc")],
    [CandleData EXCEPT !.txsCount = Whole(0)] }

\* The caller is between two calls on the registry and the constructors.
Free == call.op = "none"

\* The handler of the last successful config.set that gave key a defined
\* one, after this call.
Latest(key, keyOrValues, value, res) ==
  IF res.err # "" THEN latest[key]
  ELSE IF keyOrValues.form = "string"
  THEN IF keyOrValues.key = key /\ value # Undefined THEN value ELSE latest[key]
  ELSE IF \E i \in 1..Len(keyOrValues.values) :
            keyOrValues.values[i].key = key /\ keyOrValues.values[i].value # Undefined
  THEN (ObjectAssign(latest, keyOrValues.values))[key]
  ELSE latest[key]

\* A call on the registry returns.
Returned(op, keyOrValues, value, to, res) ==
  /\ storage' = to
  /\ latest' = [key \in DOMAIN latest |-> Latest(key, keyOrValues, value, res)]
  /\ call' = [op |-> op, keyOrValues |-> keyOrValues, value |-> value,
              asset |-> NoAssetInfo, candle |-> NoCandleInfo, before |-> storage,
              res |-> res]
  /\ UNCHANGED <<assets, candles>>
  /\ UNCHANGED <<moneyVars, priceVars>>

\* A constructor returns or throws.
Constructed(op, assetObject, candleObject, res) ==
  /\ call' = [op |-> op, keyOrValues |-> KeyArg(""), value |-> Undefined,
              asset |-> assetObject, candle |-> candleObject, before |-> storage,
              res |-> res]
  /\ UNCHANGED <<storage, latest, assets, candles>>
  /\ UNCHANGED <<moneyVars, priceVars>>

Get ==
  /\ Free
  /\ \E key \in ValidKeys :
       Returned("get", KeyArg(key), Undefined, storage, config_get(storage, key))

SetKeyValue ==
  /\ Free
  /\ \E key \in Keys :
       \E value \in ValuesFor(key) :
         LET out == config_set(storage, KeyArg(key), value)
         IN Returned("set", KeyArg(key), value, out.storage, out.res)

SetValues ==
  /\ Free
  /\ \E values \in PartialMaps :
       LET out == config_set(storage, ValuesArg(values), Undefined)
       IN Returned("set", ValuesArg(values), Undefined, out.storage, out.res)

NewAsset ==
  /\ Free
  /\ \E assetObject \in AssetInputs :
       Constructed("newAsset", assetObject, NoCandleInfo,
                   Asset_constructor(storage, assetObject))

NewCandle ==
  /\ Free
  /\ \E candleObject \in CandleInputs :
       Constructed("newCandle", NoAssetInfo, candleObject,
                   Candle_constructor(storage, candleObject))

\* The caller binds the entity the constructor made and goes on with it.
Hold ==
  /\ call.res.kind \in {"Asset", "Candle"}
  /\ Cardinality(assets) + Cardinality(candles) < MaxHeld
  /\ assets' = IF call.res.kind = "Asset" THEN assets \cup {call.res.asset} ELSE assets
  /\ candles' = IF call.res.kind = "Candle" THEN candles \cup {call.res.candle} ELSE candles
  /\ call' = NoRegistryCall
  /\ UNCHANGED <<storage, latest>>
  /\ UNCHANGED <<moneyVars, priceVars>>

\* The caller lets go of the outcome and goes on with what it had.
Forget ==
  /\ ~Free
  /\ call' = NoRegistryCall
  /\ UNCHANGED <<storage, latest, assets, candles>>
  /\ UNCHANGED <<moneyVars, priceVars>>

RegistryNext ==
  \/ Get
  \/ SetKeyValue
  \/ SetValues
  \/ NewAsset
  \/ NewCandle
  \/ Hold
  \/ Forget

RegistrySpec == Init /\ [][RegistryNext]_vars

\* ------------------------------------------------------------------------
\* The caller of AssetPair and OrderPrice
\* ------------------------------------------------------------------------

\* "1", "1.50", "999.99", "0.13", "0.125", "0.000000001", the number 2.5,
\* a BigNumber 0.5, "abc", {}, undefined
TokenAmounts ==
  { PriceText(NumStr(FALSE, <<1>>, <<>>)),
    PriceText(NumStr(FALSE, <<1>>, <<5, 0>>)),
    PriceText(NumStr(FALSE, <<9, 9, 9>>, <<9, 9>>)),
    PriceText(NumStr(FALSE, <<0>>, <<1, 3>>)),
    PriceText(NumStr(FALSE, <<0>>, <<1, 2, 5>>)),
    PriceText(NumStr(FALSE, <<0>>, <<0, 0, 0, 0, 0, 0, 0, 0, 1>>)),
    PriceNumber(NumStr(FALSE, <<2>>, <<5>>)),
    PriceDecimal(Big(5, 0 - 1)),
    PriceText(WordStr),
    PriceOther("object"),
    PriceOther("undefined") }

\* "100000000", "150", "1.5", the number -25, a BigNumber 0.5, "abc", {},
\* null, true
CoinAmounts ==
  { PriceText(NumStr(FALSE, <<1, 0, 0, 0, 0, 0, 0, 0, 0>>, <<>>)),
    PriceText(NumStr(FALSE, <<1, 5, 0>>, <<>>)),
    PriceText(NumStr(FALSE, <<1>>, <<5>>)),
    PriceNumber(NumStr(TRUE, <<2, 5>>, <<>>)),
    PriceDecimal(Big(5, 0 - 1)),
    PriceText(WordStr),
    PriceOther("object"),
    PriceOther("null"),
    PriceOther("boolean") }

\* The caller is between two calls.
Calm == quote.op = "none"

\* new AssetPair(amountAsset, priceAsset)
NewPair ==
  /\ Calm
  /\ \E amountAsset \in PairAssetRefs, priceAsset \in PairAssetRefs :
       quote' = [NoQuote EXCEPT !.op = "AssetPair",
                                !.amountAsset = amountAsset,
                                !.priceAsset = priceAsset,
                                !.res = MadePair(AssetPair_constructor(amountAsset, priceAsset))]
  /\ pairs' = pairs
  /\ UNCHANGED <<moneyVars, registryVars>>

\* The caller binds the new pair.
Retain ==
  /\ quote.res.kind = "pair"
  /\ Cardinality(pairs \cup {quote.res.pair}) <= MaxPairs
  /\ pairs' = pairs \cup {quote.res.pair}
  /\ quote' = NoQuote
  /\ UNCHANGED <<moneyVars, registryVars>>

\* The caller lets the outcome go.
Release ==
  /\ ~Calm
  /\ quote' = NoQuote
  /\ pairs' = pairs
  /\ UNCHANGED <<moneyVars, registryVars>>

\* OrderPrice.fromTokens(tokens, pair): the first leg of a round trip.
PriceFromTokens ==
  /\ Calm
  /\ \E tokens \in TokenAmounts, pair \in pairs :
       quote' = [NoQuote EXCEPT !.op = "fromTokens", !.input = tokens,
                                !.pair = pair,
                                !.res = OrderPrice_fromTokens(tokens, pair),
                                !.src = tokens, !.leg = 1]
  /\ pairs' = pairs
  /\ UNCHANGED <<moneyVars, registryVars>>

\* OrderPrice.fromMatcherCoins(coins, pair)
PriceFromMatcherCoins ==
  /\ Calm
  /\ \E coins \in CoinAmounts, pair \in pairs :
       quote' = [NoQuote EXCEPT !.op = "fromMatcherCoins", !.input = coins,
                                !.pair = pair,
                                !.res = OrderPrice_fromMatcherCoins(coins, pair)]
  /\ pairs' = pairs
  /\ UNCHANGED <<moneyVars, registryVars>>

\* price.toMatcherCoins() on the price just made.
PriceToMatcherCoins ==
  /\ quote.res.kind = "price"
  /\ quote' = [NoQuote EXCEPT !.op = "toMatcherCoins",
                              !.this = quote.res.price,
                              !.res = Wrote(OrderPrice_toMatcherCoins(quote.res.price)),
                              !.src = quote.src,
                              !.leg = IF quote.leg = 1 THEN 2 ELSE 0]
  /\ pairs' = pairs
  /\ UNCHANGED <<moneyVars, registryVars>>

\* OrderPrice.fromMatcherCoins(coins, pair) on the text toMatcherCoins just
\* wrote, with the pair of the price it was written from.
PriceFromWrittenCoins ==
  /\ quote.op = "toMatcherCoins"
  /\ LET coins == PriceText(quote.res.str)
         pair == quote.this.pair
     IN quote' = [NoQuote EXCEPT !.op = "fromMatcherCoins", !.input = coins,
                                 !.pair = pair,
                                 !.res = OrderPrice_fromMatcherCoins(coins, pair),
                                 !.src = quote.src,
                                 !.leg = IF quote.leg = 2 THEN 3 ELSE 0]
  /\ pairs' = pairs
  /\ UNCHANGED <<moneyVars, registryVars>>

\* price.toTokens() on the price just made.
PriceToTokens ==
  /\ quote.res.kind = "price"
  /\ quote' = [NoQuote EXCEPT !.op = "toTokens",
                              !.this = quote.res.price,
                              !.res = Wrote(OrderPrice_toTokens(quote.res.price)),
                              !.src = quote.src,
                              !.leg = IF quote.leg = 3 THEN 4 ELSE 0]
  /\ pairs' = pairs
  /\ UNCHANGED <<moneyVars, registryVars>>

PriceNext ==
  \/ NewPair
  \/ Retain
  \/ Release
  \/ PriceFromTokens
  \/ PriceFromMatcherCoins
  \/ PriceToMatcherCoins
  \/ PriceFromWrittenCoins
  \/ PriceToTokens

PriceSpec == Init /\ [][PriceNext]_vars

TypeOK ==
  /\ Cardinality(heap) <= MaxMonies
  /\ \A m \in heap : m.asset \in AssetRefs

\* ------------------------------------------------------------------------
\* Properties
\* ------------------------------------------------------------------------

\* The operands of the last call, where it had them.
This == last.this

That == last.arg

IdOf(m) == Assets[m.asset].id

PrecisionOf(m) == Assets[m.asset].precision

\* The coin amount of a finite Money as an integer.
CoinsInt(m) == m.coins.n \div Scale

Guarded == {"add", "sub", "times", "div", "eq", "lt", "lte", "gt", "gte"}

Constructing == {"new", "fromCoins", "fromTokens"}

\* The integer a numeral denotes once its decimal point is dropped.
RECURSIVE DigitsInt(_, _, _)
DigitsInt(acc, frac, i) ==
  IF i > Len(frac) THEN acc ELSE DigitsInt(acc * 10 + frac[i], frac, i + 1)

\* Quotient of integers rounded toward negative infinity, b # 0.
FloorQuot(a, b) ==
  LET q == Abs(a) \div Abs(b)
      exact == Abs(a) % Abs(b) = 0
  IN IF Sign(a) * Sign(b) >= 0 THEN q ELSE IF exact THEN 0 - q ELSE 0 - (q + 1)

\* Quotient of integers rounded toward zero, b # 0.
TruncQuot(a, b) == Sign(a) * Sign(b) * (Abs(a) \div Abs(b))

\* C1: toBigNumber never returns a NaN or non-finite value: an input whose
\* parsed value is NaN fails with 'Invalid numeric value', an infinite one
\* with 'Non-finite numeric value', and so do new Money, Money.fromCoins and
\* Money.fromTokens on such input.
C1_BoundaryRejectsNonNumbers ==
  (last.op = "toBigNumber" \/ last.op \in Constructing) =>
    CASE BnOf(last.x).k = "nan" -> last.res.err = InvalidNumericValue
      [] BnOf(last.x).k \in {"inf", "ninf"} -> last.res.err = NonFiniteValue
      [] OTHER -> last.res.err = ""

\* C2: new Money(c, asset) stores the largest integer not above c, for every
\* finite c: a fractional input is rounded toward negative infinity.
C2_ConstructorFloors ==
  (last.op = "new" /\ BnIsFinite(BnOf(last.x))) =>
    LET c == BnOf(last.x).n
        coins == last.res.m.coins
    IN /\ last.res.kind = "new"
       /\ last.res.m.asset = last.asset
       /\ BnIsInteger(coins)
       /\ coins.n <= c
       /\ c < coins.n + Scale

\* new Money("-0.5", asset) has been built with -1 coins.
C2_Witness ==
  /\ last.op = "new"
  /\ last.x = StrInput(DecStr(TRUE, 0, <<5>>))
  /\ last.res.m.coins = BnInt(0 - 1)

\* C3: add, sub, times, div, eq, lt, lte, gt and gte fail with the
\* asset-mismatch error, producing nothing, when the operands' asset ids
\* differ, and never fail with it when the ids are equal.
C3_MismatchLaw ==
  last.op \in Guarded =>
    IF IdOf(This) # IdOf(That)
    THEN last.res.kind = "throw" /\ last.res.err = AssetMismatch
    ELSE last.res.err # AssetMismatch

\* A division of Money of two different asset ids has failed.
C3_Witness ==
  /\ last.op = "div"
  /\ IdOf(This) # IdOf(That)
  /\ last.res.err = AssetMismatch

\* C4: a.safeSub(b) never fails with asset mismatch: with different asset
\* ids it returns the instance a itself, with equal ids it returns what
\* a.sub(b) returns, a new Money of a's asset holding a.coins - b.coins.
C4_SafeSub ==
  last.op = "safeSub" =>
    /\ last.res.err # AssetMismatch
    /\ IF IdOf(This) # IdOf(That)
       THEN last.res.kind = "same" /\ last.res.m = last.this
       ELSE /\ last.res.kind = "new"
            /\ last.res.m = Money_sub(last.this, last.arg).m
            /\ last.res.m.asset = This.asset
            /\ (BnIsFinite(This.coins) /\ BnIsFinite(That.coins)) =>
                 last.res.m.coins = Num(This.coins.n - That.coins.n)

\* safeSub on Money of different asset ids has returned its left operand.
C4_Witness ==
  /\ last.op = "safeSub"
  /\ IdOf(This) # IdOf(That)
  /\ last.res.kind = "same"
  /\ last.res.m = last.this

\* C5: between Money of the same asset id, div fails with the
\* division-by-zero error exactly when the divisor's coin amount is zero,
\* and otherwise returns a new Money.
C5_DivisionByZero ==
  (last.op = "div" /\ IdOf(This) = IdOf(That)) =>
    IF BnIsZero(That.coins)
    THEN last.res.kind = "throw" /\ last.res.err = DivisionByZero
    ELSE last.res.kind = "new" /\ last.res.err = ""

\* A division by a zero amount of the same asset has failed.
C5_Witness ==
  /\ last.op = "div"
  /\ IdOf(This) = IdOf(That)
  /\ BnIsZero(That.coins)
  /\ last.res.err = DivisionByZero

C7_TokensRoundTrip ==
  (/\ last.op = "fromTokens"
   /\ last.x.t = "string"
   /\ last.x.s.lit = "dec"
   /\ Len(last.x.s.frac) = Assets[last.asset].precision) =>
    /\ last.res.kind = "new"
    /\ Money_toTokens(last.res.m) = last.x.s
    /\ Money_toCoins(last.res.m) =
         DecStr(last.x.s.neg, DigitsInt(last.x.s.ip, last.x.s.frac, 1), <<>>)

\* Money.fromTokens("1.50", asset of precision 2) has been built: 150 coins.
C7_Witness ==
  /\ last.op = "fromTokens"
  /\ last.x = StrInput(DecStr(FALSE, 1, <<5, 0>>))
  /\ Assets[last.asset].precision = 2
  /\ Money_toCoins(last.res.m) = DecStr(FALSE, 150, <<>>)

\* A Money is well-formed: integral coins, tokens = coins / 10^precision.
WellFormed(m) ==
  /\ BnIsInteger(m.coins)
  /\ BnIsFinite(m.tokens)
  /\ m.tokens.n * Pow10(PrecisionOf(m)) = m.coins.n

\* C8: every Money reachable through the constructor, the factories, the
\* clone methods, add, sub, times, div, safeSub, toNonNegative and convert
\* has an integral coin amount and a token amount of coins / 10^precision.
C8_IntegralCoins ==
  /\ \A m \in heap : WellFormed(m)
  /\ last.res.kind = "new" => WellFormed(last.res.m)

\* Every Money is well-formed or holds a NaN or an infinite coin amount.
WellFormedOrNonFinite ==
  /\ \A m \in heap : WellFormed(m) \/ ~BnIsFinite(m.coins)
  /\ last.res.kind = "new" => WellFormed(last.res.m) \/ ~BnIsFinite(last.res.m.coins)

\* C9: between different asset ids, convert returns a Money of the target
\* asset whose coins are coins * rate / 10^(sourcePrecision - targetPrecision)
\* rounded toward zero, whatever the signs; the constructor's flooring does
\* not change that value.
C9_ConvertTruncates ==
  (/\ last.op \in {"convert", "convertTo"}
   /\ IdOf(This) # Assets[last.asset].id
   /\ BnIsFinite(This.coins)
   /\ BnIsFinite(BnOf(last.x))) =>
    LET difference == PrecisionOf(This) - Assets[last.asset].precision
        product == CoinsInt(This) * BnOf(last.x).n
        expected == IF difference >= 0
                    THEN TruncQuot(product, Scale * Pow10(difference))
                    ELSE TruncQuot(product * Pow10(0 - difference), Scale)
    IN /\ last.res.kind = "new"
       /\ last.res.m.asset = last.asset
       /\ last.res.m.coins = BnInt(expected)

\* A conversion of a positive amount at a negative rate, to a lower
\* precision, has dropped a fraction: the result is above the exact value.
C9_Witness ==
  /\ last.op = "convert"
  /\ IdOf(This) # Assets[last.asset].id
  /\ BnIsFinite(This.coins)
  /\ PrecisionOf(This) > Assets[last.asset].precision
  /\ CoinsInt(This) > 0
  /\ BnOf(last.x).n < 0
  /\ (CoinsInt(This) * Abs(BnOf(last.x).n))
       % (Scale * Pow10(PrecisionOf(This) - Assets[last.asset].precision)) # 0
  /\ last.res.kind = "new"
  /\ last.res.m.coins.n < 0

\* C10: between Money of one asset id, a.times(b) has coins a.coins *
\* b.coins and, for b # 0, a.div(b) has coins floor(a.coins / b.coins); both
\* are of a's asset.
C10_CoinScaleArithmetic ==
  (/\ last.op \in {"times", "div"}
   /\ IdOf(This) = IdOf(That)
   /\ BnIsFinite(This.coins)
   /\ BnIsFinite(That.coins)
   /\ (last.op = "div" => ~BnIsZero(That.coins))) =>
    /\ last.res.kind = "new"
    /\ last.res.m.asset = This.asset
    /\ last.res.m.coins =
         IF last.op = "times"
         THEN BnInt(CoinsInt(This) * CoinsInt(That))
         ELSE BnInt(FloorQuot(CoinsInt(This), CoinsInt(That)))

\* Two non-zero amounts of an asset of non-zero precision have been
\* multiplied: the product of the coins, not of the tokens.
C10_Witness ==
  /\ last.op = "times"
  /\ PrecisionOf(This) > 0
  /\ BnIsFinite(This.coins)
  /\ BnIsFinite(That.coins)
  /\ CoinsInt(This) * CoinsInt(That) # 0
  /\ last.res.kind = "new"
  /\ last.res.m.coins = BnInt(CoinsInt(This) * CoinsInt(That))

\* What C11 says of a call of max or min on the list it was given.
MaxMinLaw ==
  LET moneyList == last.list
      n == Len(moneyList)
  IN IF n = 0
     THEN last.res.err = (IF last.op = "max" THEN NoArgumentsMax ELSE NoArgumentsMin)
     ELSE IF \E i \in 1..n : IdOf(moneyList[i]) # IdOf(moneyList[1])
     THEN last.res.err = AssetMismatch
     ELSE /\ last.res.kind = "same"
          /\ \E i \in 1..n : last.res.m = moneyList[i]
          /\ n = 1 => last.res.m = moneyList[1]
          /\ \A i \in 1..n :
               IF last.op = "max"
               THEN BnGte(last.res.m.coins, moneyList[i].coins)
               ELSE BnLte(last.res.m.coins, moneyList[i].coins)

\* C11: Money.max and Money.min fail with an 'at least one argument' error
\* on an empty list; on a list of Money of one asset id they return one of
\* the arguments, whose coins are >= (max) or <= (min) the coins of every
\* argument, a single argument as it is; when an argument's asset id differs
\* from the first's they fail with the asset-mismatch error.
C11_MaxMin == last.op \in {"max", "min"} => MaxMinLaw

\* The same holds of every list none of whose amounts is NaN.
MaxMinOfNumbers ==
  (/\ last.op \in {"max", "min"}
   /\ \A i \in 1..Len(last.list) : ~BnIsNaN(last.list[i].coins)) => MaxMinLaw

\* A maximum taken over three arguments of one asset id was not the first.
MaxMinOfNumbersWitness ==
  /\ last.op = "max"
  /\ Len(last.list) = MaxArgs
  /\ \A i \in 1..Len(last.list) : BnIsFinite(last.list[i].coins)
  /\ last.res.kind = "same"
  /\ last.res.m # last.list[1]

\* The amount of a Money is below zero.
Negative(m) == m.coins.k = "ninf" \/ (m.coins.k = "num" /\ m.coins.n < 0)

\* C12: toNonNegative returns a Money of zero coins and the same asset when
\* the amount is negative and the very same instance otherwise; its result
\* is never negative, and applying it to its result changes nothing.
C12_ToNonNegative ==
  last.op = "toNonNegative" =>
    /\ IF Negative(This)
       THEN /\ last.res.kind = "new"
            /\ last.res.m.asset = This.asset
            /\ last.res.m.coins = BnInt(0)
            /\ last.res.m.tokens = BnInt(0)
       ELSE /\ last.res.kind = "same"
            /\ last.res.m = This
    /\ ~Negative(last.res.m)
    /\ Money_toNonNegative(last.res.m) = Same(last.res.m)

\* A negative amount of an asset of non-zero precision has been clamped.
C12_Witness ==
  /\ last.op = "toNonNegative"
  /\ Negative(This)
  /\ PrecisionOf(This) > 0
  /\ last.res.kind = "new"
  /\ last.res.m.coins = BnInt(0)

\* The keys of the last config.set that are not keys of the registry.
UnknownKeys ==
  IF call.keyOrValues.form = "string"
  THEN {call.keyOrValues.key} \ ValidKeys
  ELSE ObjectKeys(call.keyOrValues.values) \ ValidKeys

\* C13: config.set with a key other than remapAsset and remapCandle, given
\* as the key or as a key of the object, a name of Object.prototype
\* included, fails with 'Unknown config key' and leaves both handlers as
\* they were.
C13_UnknownKeyRejected ==
  (call.op = "set" /\ UnknownKeys # {}) =>
    /\ call.res.kind = "throw"
    /\ call.res.err = UnknownConfigKey
    /\ storage = call.before

\* config.set('constructor', fn) has failed on a registry whose handlers
\* were not the defaults.
C13_Witness ==
  /\ call.op = "set"
  /\ call.keyOrValues = KeyArg("constructor")
  /\ call.value # Undefined
  /\ call.res.err = UnknownConfigKey
  /\ call.before # DefaultStorage
  /\ storage = call.before

\* The value the object of the last config.set gives key.
Listed(key) ==
  LET values == call.keyOrValues.values
  IN values[CHOOSE i \in 1..Len(values) : values[i].key = key].value

\* C14: config.set(values) is all or nothing: with an unknown key among its
\* keys, in whatever order, it fails and stores none of them; with known
\* keys only it stores every key listed and leaves the others.
C14_BulkSetAllOrNothing ==
  (call.op = "set" /\ call.keyOrValues.form = "object") =>
    IF UnknownKeys # {}
    THEN call.res.kind = "throw" /\ storage = call.before
    ELSE /\ call.res.kind = "void"
         /\ DOMAIN storage = ValidKeys
         /\ \A key \in ValidKeys :
              storage[key] = IF key \in ObjectKeys(call.keyOrValues.values)
                             THEN Listed(key) ELSE call.before[key]

\* An object with a known key, new to the registry, before an unknown one
\* has been refused and the known key is as it was.
C14_Witness ==
  /\ call.op = "set"
  /\ call.keyOrValues.form = "object"
  /\ Len(call.keyOrValues.values) > 1
  /\ call.keyOrValues.values[1].key \in ValidKeys
  /\ call.keyOrValues.values[1].value # call.before[call.keyOrValues.values[1].key]
  /\ UnknownKeys # {}
  /\ call.res.kind = "throw"
  /\ storage = call.before

\* C15: config.set(key, undefined) with a known key raises nothing and
\* leaves the registry as it was, get(key) included; with an unknown key it
\* fails with 'Unknown config key'.
C15_UndefinedValueIsNoOp ==
  (/\ call.op = "set"
   /\ call.keyOrValues.form = "string"
   /\ call.value = Undefined) =>
    IF call.keyOrValues.key \in ValidKeys
    THEN /\ call.res.kind = "void"
         /\ storage = call.before
         /\ config_get(storage, call.keyOrValues.key)
              = Got(call.before[call.keyOrValues.key])
    ELSE call.res.kind = "throw" /\ call.res.err = UnknownConfigKey

\* config.set('remapAsset', undefined) has returned on a registry that held
\* a handler of the caller's, which it still holds.
C15_Witness ==
  /\ call.op = "set"
  /\ call.keyOrValues = KeyArg("remapAsset")
  /\ call.value = Undefined
  /\ call.res.kind = "void"
  /\ call.before["remapAsset"] = "rename"
  /\ storage["remapAsset"] = "rename"

\* C16: after any calls of config.set, get(k) returns the handler of the
\* last successful set that gave k a defined value, the default if there
\* was none; a set for one key leaves the other key's handler.
C16_LastWriterWins ==
  /\ \A key \in ValidKeys : config_get(storage, key) = Got(latest[key])
  /\ (call.op = "set" /\ call.keyOrValues.form = "string") =>
       \A key \in ValidKeys \ {call.keyOrValues.key} : storage[key] = call.before[key]

\* Each key holds the handler last given to it, or undefined.
StoredIsLatestOrUndefined ==
  /\ DOMAIN storage = ValidKeys
  /\ \A key \in ValidKeys : storage[key] \in {latest[key], Undefined}
  /\ (call.op = "set" /\ call.keyOrValues.form = "string") =>
       \A key \in ValidKeys \ {call.keyOrValues.key} : storage[key] = call.before[key]

\* C17: in every state of the registry it has the two keys remapAsset and
\* remapCandle and each holds a defined handler, so that the Asset and the
\* Candle constructor can always call it.
C17_TwoDefinedHandlers ==
  /\ DOMAIN storage = ValidKeys
  /\ \A key \in ValidKeys : storage[key] # Undefined
  /\ call.op \in {"newAsset", "newCandle"} => call.res.err # NotAFunction

\* The registry always has exactly its two keys.
TwoKeys == DOMAIN storage = ValidKeys

\* A field is a non-empty string.
NonEmptyString(x) == x.t = "string" /\ x.s # Lit("")

\* A field is a non-negative integer.
NonNegativeInteger(x) == \E i \in 0..10 : x = Whole(i)

\* A numeric field converts to a decimal.
Converts(x) == BnIsFinite(BnOf(x))

\* The five validated fields of asset data are valid.
ValidFields(data) ==
  /\ NonEmptyString(data.id)
  /\ NonEmptyString(data.name)
  /\ NonEmptyString(data.sender)
  /\ NonNegativeInteger(data.precision)
  /\ NonNegativeInteger(data.height)

\* A field is absent.
Absent(x) == x.t \in {"none", "null"}

InvalidFieldErrors ==
  {InvalidAssetId, InvalidAssetName, InvalidAssetSender, InvalidPrecision, InvalidHeight}

\* The asset data the last constructor call validated: what the handler
\* registered at the call made of the data given.
Remapped == Apply(call.before["remapAsset"], call.asset)

RemappedCandle == Apply(call.before["remapCandle"], call.candle)

\* What C19 says of a constructor call that has just returned: it used the
\* handler the registry held when it was called, validated what the handler
\* returned and stored the conversions of that.
HookThenValidateThenConvert ==
  /\ (call'.op = "newAsset" /\ storage["remapAsset"] # Undefined) =>
       LET remapped == Apply(storage["remapAsset"], call'.asset)
       IN /\ call'.res.kind = "throw" <=> ~ValidFields(remapped)
          /\ call'.res.kind = "Asset" =>
               /\ call'.res.asset.id = remapped.id
               /\ call'.res.asset.name = remapped.name
               /\ call'.res.asset.sender = remapped.sender
               /\ call'.res.asset.precision = remapped.precision
               /\ call'.res.asset.height = remapped.height
               /\ call'.res.asset.quantity = BnOf(remapped.quantity)
  /\ (call'.op = "newCandle" /\ storage["remapCandle"] # Undefined) =>
       LET remapped == Apply(storage["remapCandle"], call'.candle)
       IN /\ call'.res.kind = "Candle"
          /\ call'.res.candle.open = BnOf(remapped.open)
          /\ call'.res.candle.close = BnOf(remapped.close)
          /\ call'.res.candle.high = BnOf(remapped.high)
          /\ call'.res.candle.low = BnOf(remapped.low)
          /\ call'.res.candle.volume = BnOf(remapped.volume)
          /\ call'.res.candle.quoteVolume = BnOf(remapped.quoteVolume)
          /\ call'.res.candle.weightedAveragePrice = BnOf(remapped.weightedAveragePrice)
          /\ call'.res.candle.time = remapped.time
          /\ call'.res.candle.maxHeight = remapped.maxHeight
          /\ call'.res.candle.txsCount = remapped.txsCount

\* C19: Asset and Candle construction goes raw input, then the handler
\* registered at that time, then validation, then decimal conversion:
\* validation and the stored fields are those of the handler's output; a
\* config.set leaves the entities built before it as they are, and the
\* entities built after it use the handler it stored.
C19_HookFirst ==
  [][/\ Free => HookThenValidateThenConvert
     /\ call'.op = "set" => assets' = assets /\ candles' = candles]_vars

\* While an Asset built under the default handler is held, data with an
\* empty name has made an Asset named by the handler set since.
C19_Witness ==
  /\ call.op = "newAsset"
  /\ storage["remapAsset"] = "rename"
  /\ call.asset.name = Text("")
  /\ call.res.kind = "Asset"
  /\ call.res.asset.name = Text("REMAPPED")
  /\ \E asset \in assets : asset.name = Text("Default Name")

\* C20: a constructed Asset has the ticker given, null when absent; the
\* hasScript given, false when absent; the minSponsoredFee converted, null
\* when absent; and for displayName its ticker when one is given, an empty
\* one too, its name otherwise.
C20_AssetDefaults ==
  (call.op = "newAsset" /\ call.res.kind = "Asset") =>
    LET asset == call.res.asset
    IN /\ asset.ticker = IF Absent(Remapped.ticker) THEN NullInput ELSE Remapped.ticker
       /\ asset.hasScript =
            IF Absent(Remapped.hasScript) THEN BoolInput(FALSE) ELSE Remapped.hasScript
       /\ asset.minSponsoredFee =
            IF Absent(Remapped.minSponsoredFee) THEN BnNull
            ELSE BnOf(Remapped.minSponsoredFee)
       /\ asset.displayName =
            IF Absent(Remapped.ticker) THEN Remapped.name ELSE Remapped.ticker

\* An Asset given an empty ticker displays it, under a handler that renames.
C20_Witness ==
  /\ call.op = "newAsset"
  /\ call.res.kind = "Asset"
  /\ call.asset.ticker = Text("")
  /\ call.before["remapAsset"] = "rename"
  /\ call.res.asset.displayName = Text("")
  /\ call.res.asset.name = Text("REMAPPED")

\* The pair the last call made, where it made one.
PairMade == IF quote.res.kind = "pair" THEN {quote.res.pair} ELSE {}

\* C21: a new AssetPair holds the two Asset references it was given and has
\* precisionDifference = priceAsset.precision - amountAsset.precision, be it
\* positive, zero or negative; the pair of the same two assets in the other
\* order has the negated difference.
C21_PairDifference ==
  /\ quote.op = "AssetPair" =>
       /\ quote.res.kind = "pair"
       /\ quote.res.pair.amountAsset = quote.amountAsset
       /\ quote.res.pair.priceAsset = quote.priceAsset
       /\ quote.res.pair.precisionDifference =
            PairAssets[quote.priceAsset].precision
              - PairAssets[quote.amountAsset].precision
  /\ \A p \in pairs, q \in pairs \cup PairMade :
       (p.amountAsset = q.priceAsset /\ p.priceAsset = q.amountAsset) =>
         q.precisionDifference = 0 - p.precisionDifference

\* A pair of negative difference is made while the caller holds the pair
\* of the same assets in the other order and a pair of difference zero.
C21_Witness ==
  /\ quote.op = "AssetPair"
  /\ quote.res.pair.precisionDifference < 0
  /\ \E p \in pairs :
       /\ p.amountAsset = quote.priceAsset
       /\ p.priceAsset = quote.amountAsset
       /\ p.precisionDifference > 0
  /\ \E p \in pairs : p.precisionDifference = 0

\* The text of a number with exactly p digits after the point.
RoundedTo(s, p) == s.lit = "digits" /\ Len(s.frac) = p

\* The last call ends a round trip from the text quote.src.s: fromTokens,
\* toMatcherCoins, fromMatcherCoins on the text written, toTokens.
RoundTripDone ==
  /\ quote.op = "toTokens"
  /\ quote.leg = 4
  /\ quote.src.t = "string"
  /\ RoundedTo(quote.src.s, PairAssets[quote.this.pair.priceAsset].precision)

\* C22: for a pair of any precisionDifference and a text s already rounded
\* to priceAsset.precision decimal places, fromTokens(s, pair), then
\* toMatcherCoins, then fromMatcherCoins of that text, then toTokens gives
\* s back.
C22_PriceRoundTrip == RoundTripDone => quote.res.str = quote.src.s

\* The round trip gives s back for every pair whose amount asset has at
\* most the eight decimal places of the matcher scale.
RoundTripWithinMatcherScale ==
  (RoundTripDone /\ PairAssets[quote.this.pair.amountAsset].precision <= 8) =>
    quote.res.str = quote.src.s

\* Such a round trip is made on pairs of positive and of negative difference.
RoundTripWithinMatcherScaleWitness ==
  /\ RoundTripDone
  /\ PairAssets[quote.this.pair.amountAsset].precision <= 8
  /\ quote.this.pair.precisionDifference < 0
  /\ quote.res.str = quote.src.s

\* The last call made a price out of a number.
PriceMade == quote.res.kind = "price" /\ quote.res.price.matcherCoins.k = "num"

\* C23: every OrderPrice, from either factory, has tokens = matcherCoins /
\* (10^pair.precisionDifference * 10^8), the matcher scale being 10^8, and
\* holds as matcher coins exactly the value the constructor was given: a
\* text of coins is held digit for digit, a BigNumber as it is, neither
\* rounded nor floored.
C23_TokensOverMatcherScale ==
  PriceMade =>
    LET price == quote.res.price
        coins == price.matcherCoins
    IN /\ price.pair = quote.pair
       /\ price.tokens = Big(coins.m, coins.e - (price.pair.precisionDifference + 8))
       /\ (quote.op = "fromMatcherCoins" /\ quote.input.t = "BigNumber") =>
            coins = quote.input.v
       /\ (quote.op = "fromMatcherCoins" /\ quote.input.t \in {"string", "number"}) =>
            BigToFixed(coins, Len(quote.input.s.frac)) = quote.input.s

\* A price is made of the coins "1.5" on a pair of negative difference.
C23_Witness ==
  /\ PriceMade
  /\ quote.op = "fromMatcherCoins"
  /\ quote.input.t = "string"
  /\ quote.input.s.frac = <<5>>
  /\ quote.pair.precisionDifference < 0
  /\ quote.res.price.tokens.m = 15

\* The number a text s stands for once rounded half up to p digits after
\* the point, counted from its digits.
RoundedValue(s, p) ==
  LET f == Len(s.frac)
  IN IF f <= p THEN Big(FoldDigits(s.int \o s.frac), 0 - f)
     ELSE Big(FoldDigits(s.int \o SubSeq(s.frac, 1, p))
                + (IF s.frac[p + 1] >= 5 THEN 1 ELSE 0), 0 - p)

\* The token amounts given as the text of a number.
NumberTexts == { x \in TokenAmounts : x.t \in {"string", "number"} /\ x.s.lit = "digits" }

\* C24: fromTokens(t, pair) rounds t to pair.priceAsset.precision decimal
\* places before it multiplies by 10^precisionDifference * 10^8: the matcher
\* coins are the rounded amount times that factor, so no digit of t beyond
\* the precision reaches them, and any other input that rounds to the same
\* amount gives the same matcher coins.
C24_RoundsBeforeScaling ==
  (quote.op = "fromTokens" /\ quote.input \in NumberTexts) =>
    LET p == PairAssets[quote.pair.priceAsset].precision
        rounded == RoundedValue(quote.input.s, p)
        coins == quote.res.price.matcherCoins
    IN /\ quote.res.kind = "price"
       /\ coins = Big(rounded.m, rounded.e + quote.pair.precisionDifference + 8)
       /\ \A other \in NumberTexts :
            RoundedValue(other.s, p) = rounded =>
              OrderPrice_fromTokens(other, quote.pair).price.matcherCoins = coins

\* fromTokens is given "0.125" on a pair whose price asset has two decimal
\* places: 0.13 is scaled, as it is for "0.13".
C24_Witness ==
  /\ quote.op = "fromTokens"
  /\ quote.input.t = "string"
  /\ quote.input.s.frac = <<1, 2, 5>>
  /\ PairAssets[quote.pair.priceAsset].precision = 2
  /\ quote.res.kind = "price"
  /\ quote.res.price.matcherCoins.m = 13
  /\ \E other \in NumberTexts :
       /\ other # quote.input
       /\ RoundedValue(other.s, 2) = RoundedValue(quote.input.s, 2)

\* C25: fromMatcherCoins and fromTokens fail with the invalid-input-type
\* error for every input that is neither a string nor a number nor a
\* BigNumber (a plain object, null, undefined, a boolean): the type is
\* checked before anything is parsed, so no price comes of such an input.
C25_InputTypeChecked ==
  (/\ quote.op \in {"fromTokens", "fromMatcherCoins"}
   /\ quote.input.t \notin {"string", "number", "BigNumber"}) =>
    /\ quote.res.kind = "throw"
    /\ quote.res.err = InvalidInputType

\* fromTokens is given a plain object and fails.
C25_Witness ==
  /\ quote.op = "fromTokens"
  /\ quote.input.t = "object"
  /\ quote.res.err = InvalidInputType

\* C26: the Candle constructor passes the raw input through the registered
\* remapCandle handler; open, close, high, low, volume, quoteVolume and
\* weightedAveragePrice of the Candle are the conversions of what the
\* handler returned, a field given as a BigNumber being held as that very
\* instance; time, maxHeight and txsCount are held as the handler returned
\* them.
C26_CandleFields ==
  (call.op = "newCandle" /\ call.before["remapCandle"] # Undefined) =>
    LET remapped == RemappedCandle
        candle == call.res.candle
    IN /\ call.res.kind = "Candle"
       /\ \A f \in DecimalFields :
            /\ candle[f] = BnOf(remapped[f])
            /\ f \in candle.shared <=> remapped[f].t = "BigNumber"
       /\ candle.time = remapped.time
       /\ candle.maxHeight = remapped.maxHeight
       /\ candle.txsCount = remapped.txsCount

\* A Candle is made of data whose open is a BigNumber and holds it, its
\* other prices being converted from their texts.
C26_Witness ==
  /\ call.op = "newCandle"
  /\ call.candle.open.t = "BigNumber"
  /\ call.before["remapCandle"] = Identity
  /\ call.res.kind = "Candle"
  /\ call.res.candle.shared = {"open"}
  /\ call.res.candle.open = call.candle.open.v
  /\ call.res.candle.close = BnNew(call.candle.close.s)

\* A Candle is made under a handler that replaces the open price and the
\* count of the data.
CandleRemappedWitness ==
  /\ call.op = "newCandle"
  /\ call.candle.open.t = "BigNumber"
  /\ call.before["remapCandle"] = "reopen"
  /\ call.res.kind = "Candle"
  /\ call.res.candle.shared = {}
  /\ call.res.candle.txsCount = Whole(0)

\* The last constructor call left no instance with a field assigned.
NothingAssigned == call.res.asset = NoAsset /\ call.res.candle = NoCandle

\* The decimal boundary is given, in a numeric field of the remapped data,
\* what is no finite number.
AssetBoundaryFails ==
  /\ call.op = "newAsset"
  /\ call.before["remapAsset"] # Undefined
  /\ ValidFields(Remapped)
  /\ \/ ~Converts(Remapped.quantity)
     \/ ~Absent(Remapped.minSponsoredFee) /\ ~Converts(Remapped.minSponsoredFee)

CandleBoundaryFails ==
  /\ call.op = "newCandle"
  /\ call.before["remapCandle"] # Undefined
  /\ \E f \in DecimalFields : ~Converts(RemappedCandle[f])

\* C27: a failing constructor assigns no field: when the construction of
\* an Asset or a Candle fails on the validation of a field, or when the
\* decimal boundary fails on one of its numeric fields, a later one too, no
\* field of the instance has been assigned.
C27_FailureAssignsNothing ==
  /\ (call.op \in {"newAsset", "newCandle"} /\ call.res.kind = "throw") =>
       NothingAssigned
  /\ AssetBoundaryFails => NothingAssigned
  /\ CandleBoundaryFails => NothingAssigned

\* Every failure the constructors of Asset and Candle have comes before
\* the first assignment.
ThrowAssignsNothing ==
  (call.op \in {"newAsset", "newCandle"} /\ call.res.kind = "throw") =>
    NothingAssigned

\* An Asset fails on its height, the last field validated.
ThrowAssignsNothingWitness ==
  /\ call.op = "newAsset"
  /\ call.res.err = InvalidHeight
  /\ NothingAssigned

\* The Money instances the last call was made on or given.
Operands ==
  ({last.this, last.arg} \cup {last.list[i] : i \in DOMAIN last.list}) \ {NoMoney}

\* C28: no Money operation changes an existing value: a call of add, sub,
\* times, div, safeSub, toNonNegative, cloneWithCoins, cloneWithTokens,
\* convertTo or a comparison leaves every Money held, its operands among
\* them, with the coins, tokens and asset it had, and a result that is
\* not one of the operands as it was is a new instance.
C28_NoMutation ==
  [][last'.op # "none" =>
       /\ heap' = heap
       /\ Operands' \subseteq heap'
       /\ last'.res.kind = "same" => last'.res.m \in Operands'
       /\ (last'.res.kind \in {"new", "same"} /\ last'.res.m \notin Operands') =>
            last'.res.kind = "new"]_vars

\* add has made a Money that is neither of its two operands, which are held
\* as they were.
C28_Witness ==
  /\ last.op = "add"
  /\ last.res.kind = "new"
  /\ last.res.m \notin heap
  /\ This \in heap /\ That \in heap /\ This # That
  /\ BnGt(This.coins, BnInt(0)) /\ BnGt(That.coins, BnInt(0))

\* C29: div matches the assets before it looks at the divisor: dividing by
\* a Money of zero coins and another asset id fails with the asset-mismatch
\* error, and division by zero is reported only when the ids match.
C29_MismatchBeforeZero ==
  last.op = "div" =>
    /\ (IdOf(This) # IdOf(That) /\ BnIsZero(That.coins)) =>
         (last.res.kind = "throw" /\ last.res.err = AssetMismatch)
    /\ last.res.err = DivisionByZero =>
         (IdOf(This) = IdOf(That) /\ BnIsZero(That.coins))

\* A Money is divided by a Money of zero coins and another asset id.
C29_Witness ==
  /\ last.op = "div"
  /\ IdOf(This) # IdOf(That)
  /\ BnIsZero(That.coins)
  /\ last.res.err = AssetMismatch

\* The arguments of the last call are of one asset id.
OneAssetId ==
  \A i \in DOMAIN last.list, j \in DOMAIN last.list :
    IdOf(last.list[i]) = IdOf(last.list[j])

\* The i-th argument has the extreme coin amount: the greatest for max, the
\* least for min.
IsExtreme(i) ==
  \A j \in DOMAIN last.list :
    IF last.op = "max" THEN BnGte(last.list[i].coins, last.list[j].coins)
    ELSE BnLte(last.list[i].coins, last.list[j].coins)

\* C30: Money.max and Money.min return one of their arguments, no new
\* Money, and of several arguments of one asset id that share the extreme
\* coin amount the first in argument order.
C30_FirstOfTies ==
  (last.op \in {"max", "min"} /\ Len(last.list) > 0 /\ OneAssetId) =>
    /\ last.res.kind = "same"
    /\ \E i \in DOMAIN last.list : last.res.m = last.list[i]
    /\ \A i \in DOMAIN last.list :
         (IsExtreme(i) /\ \A j \in 1..(i - 1) : ~IsExtreme(j)) =>
           last.res.m = last.list[i]

\* Money.max is given two different instances of one asset id and one coin
\* amount, the greatest of the list, and returns the first.
C30_Witness ==
  /\ last.op = "max"
  /\ Len(last.list) >= 2
  /\ OneAssetId
  /\ last.list[1] # last.list[2]
  /\ BnEq(last.list[1].coins, last.list[2].coins)
  /\ IsExtreme(1)
  /\ last.res.kind = "same"
  /\ last.res.m = last.list[1]

====
